---- MODULE Spec2Model ----
(***************************************************************************)
(* The resumable publish pipeline of aidc-toolkit/dev.                     *)
(*                                                                         *)
(* Three programs of the repository drive the same step pipeline and are   *)
(* modelled side by side; `variant` says which one is running:             *)
(*   "beta"     src/src/publish/publish-beta.ts  (PublishBeta + Publish)   *)
(*   "external" src/src/publish-external.ts + src/src/publish.ts           *)
(*   "release"  src/src/release.ts                                         *)
(*                                                                         *)
(* A behaviour is a sequence of runs of the program (processes).  Between  *)
(* two runs only the files survive: the persisted configuration (`saved`)  *)
(* and the package manifests (`manifest`).  This is specification `Spec`.   *)
(*                                                                         *)
(* The wait for a CI workflow run (validateWorkflow, the body of the two    *)
(* `workflow (...)` steps) is modelled poll by poll in specification        *)
(* `SpecCI`.  Each specification leaves the variables of the others alone.  *)
(***************************************************************************)
EXTENDS Integers, Sequences, FiniteSets, TLC

\* ------------------------------------------------------------------ bounds
NumRepos == 2
MaxRuns == 2

Repos == 1..NumRepos

\* ------------------------------------------------------- steps and pointers
Undefined == "undefined"

Variants == {"beta", "external", "release"}

BetaPipeline ==
    <<"update", "build", "commit", "tag", "push", "workflow (push)", "release", "workflow (release)">>

ExternalPipeline ==
    <<"install", "build", "commit", "tag", "push", "workflow (push)", "release", "workflow (release)",
      "restore alpha">>

\* The ordered runStep()/step() calls of the publish body of a variant.
Pipeline(v) == IF v = "beta" THEN BetaPipeline ELSE ExternalPipeline

\* The closed Step/State enumeration of a variant.
StepNames(v) ==
    IF v = "beta"
    THEN {BetaPipeline[i] : i \in 1..Len(BetaPipeline)} \cup {"complete"}
    ELSE {ExternalPipeline[i] : i \in 1..Len(ExternalPipeline)} \cup {"skipped", "complete"}

VARIABLES
    variant,            \* which program is modelled (fixed in a behaviour)
    dryRun,             \* --dry-run flag of the process (beta only)
    runs,               \* number of processes started so far
    clock,              \* number of `new Date()` readings so far
    configuration,      \* in-memory configuration: repo -> [step, lastPublished, lastVersion]
    saved,              \* the same on disk (publish.json / release.state.json)
    manifest,           \* package.json on disk: repo -> [version, pre]
    pc,                 \* position of the process
    cur,                \* index of the repository being processed
    idx,                \* index in Pipeline(variant) of the next runStep call
    packageVersion,     \* in-memory packageConfiguration.version of the current repository
    allSkipped,         \* release.ts local
    firstRepository,    \* release.ts local
    invoked,            \* history: step bodies invoked for the current repository, in order
    prev,               \* history: how the previous run ended
    last,               \* history: how the current/last run ended or stands
    saved0,             \* history: persisted step pointers when this run started
    \* ---- validateWorkflow (SpecCI)
    ciVariant,          \* which validateWorkflow is modelled (fixed in a behaviour)
    workflowRuns,       \* the CI provider: run ID -> status of the runs for the commit
    ciOutcome,          \* how the wait stands or ended
    queryCount,         \* validateWorkflow local
    workflowRunID,      \* validateWorkflow local: the tracked run
    completed,          \* validateWorkflow local
    response,           \* history: the run IDs of the last response, in order
    everSeen,           \* history: one of the first QueryLimit polls returned a run
    polls,              \* history: number of polls made (counted up to QueryLimit + 1)
    tick,               \* history: parity of the number of polls made
    \* ---- anyChanges (SpecChanges)
    chVariant,          \* which anyChanges is modelled (fixed in a behaviour)
    strict,             \* `external` / `releaseType !== "alpha"`
    lastPublished,      \* the reference timestamp: <<>> when absent, else <<t>>
    gitLog,             \* entries of `git log --since ... --name-status`
    gitStatus,          \* entries of `git status --porcelain`
    mtime,              \* path -> modification time of the file
    chPc,               \* "idle", "checked", "aborted", "steps"
    chOutcome,          \* what anyChanges returned or threw, and what it consulted
    \* ---- organization dependencies in publishAll (SpecDeps)
    packageDependencies,            \* package -> its direct organization dependencies
    lastChannelPublished,           \* package -> last-published timestamp of the channel
    depClock,                       \* next reading of `new Date()`
    depPc,                          \* "resolve", "publish", "done", "failed"
    depCur,                         \* the package being processed
    allOrganizationDependencies,    \* package -> resolved set, <<>> before it is saved
    organizationDependenciesUpdated,\* package -> the flag computed for it, as <<>> or <<b>>
    publishedNow,                   \* history: packages published in this run
    depError,                       \* the error that ended the run, or "none"
    \* ---- parsing and building a package version (SpecVersionString)
    vsVariant,          \* which parser and builder are modelled (fixed in a behaviour)
    versionString,      \* the version of the manifest, a sequence of characters
    parsedVersion,      \* its components as parsed
    builtVersion,       \* the version built from the components
    vsPc,               \* "string", "parsed", "built", "invalid"
    \* ---- versions, channels and branches (SpecVersion)
    program,            \* the program of the current run
    branch,             \* the branch the repository is on
    packageJson,        \* the version in package.json on disk
    backupPackageJson,  \* .package.json: <<>> when absent, else <<its version>>
    fields,             \* _majorVersion .. _preReleaseIdentifier of the process
    betaStep,           \* repository.publishBetaStep
    verPc,              \* position of the run
    verError,           \* the error that ended the run, or "none"
    verRuns,            \* number of runs started
    verStart,           \* history: manifest version and pointer when the run started
    verEntry,           \* history: version, fields and pointer when publish() was entered
    verBefore,          \* history: <<manifest version before the publication>>
    verChanged,         \* history: what the change detection of the run returned
    verStepRan,         \* history: a step body ran in this run
    \* ---- dry run of the beta publish (SpecDryRun)
    drDryRun,           \* --dry-run flag of the process
    hasPushWorkflow,    \* the repository has a workflow triggered by a push
    hasReleaseWorkflow, \* the repository has a workflow triggered by a release
    drIdentifier,       \* pre-release identifier of the package
    drStep,             \* repository.publishBetaStep
    drIdx,              \* index in InstallPipeline of the next runStep call
    drPc,               \* "publish", "steps", "done", "failed"
    effects,            \* history: what the run did outside the process
    \* ---- the configuration stores (SpecConfiguration)
    cfgVariant,         \* which program keeps the stores (fixed in a behaviour)
    sharedStore,        \* publish.json
    localStore,         \* publish.local.json
    cfg,                \* the configuration of the process
    cfgSaved,           \* history: the configuration that was saved
    cfgPc,              \* "stored", "loaded", "published", "saved", "reloaded"
    \* ---- the publish cycle of a repository (SpecCycle)
    returnedSteps,      \* history: <<repository, step>> of the bodies that returned in the cycle
    startPublished,     \* history: repo -> last-published timestamp and version at run start
    \* ---- the path filter of processChangedFile (SpecFilter)
    flVariant,          \* which anyChanges is modelled (fixed in a behaviour)
    excludePaths,       \* repository.excludePaths / repository.excludeFiles
    flFile,             \* the file of the line that is processed
    flTouched,          \* the file was modified after the reference timestamp
    flSet,              \* changedFilesSet of anyChanges
    flPc,               \* "line", "processed", "checked"
    flAnyChanges,       \* what the check returned
    \* state of SpecCwd: the working directory of the process
    wdRelease,          \* "alpha", "beta", "production" (publishAll) or "external" (publishRepositories)
    wdBranchOf,         \* directory -> the branch checked out there (0 is the start directory)
    wdExists,           \* repository -> its directory exists
    cwd,                \* process.cwd()
    wdIdx,              \* position of the loop over the repositories
    wdPc,               \* "loop", "entered", "validated", "done"
    wdBranch,           \* this._branch / the branch the callback read
    wdQueries,          \* history: <<repository, query, directory it ran in>>
    \* state of SpecRefuse
    asked               \* history: what the decision of the callback that just ran was given

progVars == <<variant, dryRun, runs, clock, configuration, saved, manifest, pc, cur, idx,
              packageVersion, allSkipped, firstRepository>>
histVars == <<invoked, prev, last, saved0>>
publishVars == <<progVars, histVars>>
ciVars == <<ciVariant, workflowRuns, ciOutcome, queryCount, workflowRunID, completed,
            response, everSeen, polls, tick>>
chVars == <<chVariant, strict, lastPublished, gitLog, gitStatus, mtime, chPc, chOutcome>>
depVars == <<packageDependencies, lastChannelPublished, depClock, depPc, depCur,
             allOrganizationDependencies, organizationDependenciesUpdated, publishedNow,
             depError>>
vsVars == <<vsVariant, versionString, parsedVersion, builtVersion, vsPc>>
\* The variables of the specifications of the pipeline, the CI wait, the
\* change detection and the dependencies, and those of the later ones.
coreVars == <<publishVars, ciVars, chVars, depVars>>
verVars == <<program, branch, packageJson, backupPackageJson, fields, betaStep, verPc,
            verError, verRuns, verStart, verEntry, verBefore, verChanged, verStepRan>>
drVars == <<drDryRun, hasPushWorkflow, hasReleaseWorkflow, drIdentifier, drStep, drIdx, drPc,
           effects>>
cfgVars == <<cfgVariant, sharedStore, localStore, cfg, cfgSaved, cfgPc>>
cycVars == <<returnedSteps, startPublished>>
\* The variables of the specifications added last.
flVars == <<flVariant, excludePaths, flFile, flTouched, flSet, flPc, flAnyChanges>>
\* Those added after the history of the cycle.
wdVars == <<wdRelease, wdBranchOf, wdExists, cwd, wdIdx, wdPc, wdBranch, wdQueries>>
rfVars == <<asked>>
restVars == <<flVars, wdVars, rfVars>>
lateVars == <<cycVars, restVars>>
moreVars == <<vsVars, verVars, drVars, cfgVars, lateVars>>
vars == <<coreVars, moreVars>>

NoRun == [kind |-> "none", repo |-> 0, step |-> Undefined, at |-> "idle", returned |-> Undefined]

\* Persisted pointers of a stored configuration.
Pointers(conf) == [r \in Repos |-> conf[r].step]

\* ---------------------------------------------------------- configuration
\* saveConfiguration()/saveState(): the in-memory configuration written to disk;
\* a dry run logs instead of writing.
SaveConfiguration(conf, disk, dry) == IF dry THEN disk ELSE conf

InitCommon ==
    /\ variant \in Variants
    /\ runs = 0
    /\ clock = 0
    /\ saved = [r \in Repos |->
                  [step |-> Undefined, lastPublished |-> 0,
                   lastVersion |-> IF variant = "release" THEN 2 ELSE 1]]
    /\ configuration = saved
    /\ manifest \in [Repos -> [version : IF variant = "beta" THEN {1} ELSE {1, 2},
                               pre : IF variant = "beta" THEN {"alpha", "beta"} ELSE {"none"}]]
    /\ pc = "idle"
    /\ cur = 0
    /\ idx = 0
    /\ packageVersion = 0
    /\ allSkipped = TRUE
    /\ firstRepository = TRUE
    /\ invoked = <<>>
    /\ prev = NoRun
    /\ last = NoRun
    /\ saved0 = Pointers(saved)

\* ------------------------------------------------------------ run lifecycle
Running == pc # "idle"

\* A process is started: the configuration is loaded from the files.
StartRun ==
    /\ pc = "idle"
    /\ runs < MaxRuns
    /\ runs' = runs + 1
    /\ configuration' = saved
    /\ pc' = "repo"
    /\ cur' = 1
    /\ idx' = 0
    /\ allSkipped' = TRUE
    /\ firstRepository' = TRUE
    /\ invoked' = <<>>
    /\ prev' = last
    /\ last' = NoRun
    /\ saved0' = Pointers(saved)
    /\ UNCHANGED <<variant, dryRun, clock, saved, manifest, packageVersion>>

\* The for-loop over Object.entries(configuration.repositories) moves on.
NextPc == IF cur = NumRepos THEN "finish" ELSE "repo"
NextCur == IF cur = NumRepos THEN cur ELSE cur + 1

\* How a run ended: by an error that reached the top-level catch ("error"), by
\* being stopped ("kill") or normally ("done"); in which repository, where, at
\* which step, and the step of that repository whose body returned last.
Ended(kind, at, step) ==
    [kind |-> kind, repo |-> cur, step |-> step, at |-> at,
     returned |-> IF pc = "step" /\ invoked # <<>> THEN invoked[Len(invoked)] ELSE Undefined]

\* The step the process stands at (for the history records only).
StepAt == IF pc \in {"step", "body"} /\ idx \in 1..Len(Pipeline(variant))
          THEN Pipeline(variant)[idx] ELSE Undefined

\* The process is gone and its memory with it: only the files (saved, manifest)
\* and the way the run ended are left.  The process-local variables take the
\* values a new process starts from.
MemoryLost ==
    /\ idx' = 0
    /\ packageVersion' = 0
    /\ allSkipped' = TRUE
    /\ firstRepository' = TRUE
    /\ invoked' = <<>>
    /\ prev' = NoRun
    /\ saved0' = [r \in Repos |-> Undefined]

\* The process is stopped from outside (crash, kill): memory is lost, files stay.
Kill ==
    /\ Running
    /\ pc' = "idle"
    /\ last' = Ended("kill", pc, StepAt)
    /\ configuration' = saved
    /\ MemoryLost
    /\ UNCHANGED <<variant, dryRun, runs, clock, saved, manifest, cur>>

\* A faulty variant of AfterThrow: the error is swallowed per repository and
\* the loop moves on.
AfterThrowContinues(nextPc) == nextPc

\* Where the process stands once an error has been thrown out of the loop over
\* the repositories: nothing catches it before the top-level catch.
AfterThrow(nextPc) == "idle"

\* An error thrown before the publish logic of the current repository is under
\* any try/finally (version or branch check, missing repository, failed git
\* query, uncommitted changes, unpublished internal changes): nothing is saved.
\* In publish-beta the manifest may already have been realigned to the version
\* branch when the commit of that realignment fails.
PreambleThrow ==
    /\ pc = "repo"
    /\ \E realign \in (IF variant = "beta" /\ ~dryRun THEN BOOLEAN ELSE {FALSE}) :
          manifest' = IF realign
                      THEN [manifest EXCEPT ![cur] = [version |-> 0, pre |-> "none"]]
                      ELSE manifest
    /\ pc' = AfterThrow(NextPc)
    /\ last' = Ended("error", "preamble", Undefined)
    /\ configuration' = saved
    /\ MemoryLost
    /\ UNCHANGED <<variant, dryRun, runs, clock, saved, cur>>

\* ------------------------------------------------------------- publish-beta
\* A faulty variant of BetaScrap: the pointer is scrapped whatever the identifier.
BetaScrapAlways(pre, step) == Undefined

\* "Scrap any incomplete publishing if pre-release identifier is not beta."
BetaScrap(pre, step) == IF pre # "beta" THEN Undefined ELSE step

\* The value of `publish` when no error is thrown.
BetaPublishDecision(pre, step) ==
    IF pre = "alpha" THEN TRUE ELSE step # Undefined /\ step # "complete"

\* Whether anyChanges() is consulted (and may make publish() throw).
BetaChecksChanges(pre, step) == pre = "alpha" \/ step = Undefined

\* publishAll: the repository directory does not exist and the repository is
\* not external: it is passed over.
BetaMissing ==
    /\ pc = "repo"
    /\ variant = "beta"
    /\ pc' = NextPc
    /\ cur' = NextCur
    /\ UNCHANGED <<variant, dryRun, runs, clock, configuration, saved, manifest, idx,
                   packageVersion, allSkipped,
                   firstRepository, histVars>>

\* publishAll up to and including the decision of PublishBeta.publish().
\*   realign  the package version does not match the version branch
\*   changed  anyChanges() reports changes (or throws)
BetaRepository(realign, changed) ==
    LET r == cur
        pre1 == IF realign THEN "none" ELSE manifest[r].pre
        step1 == BetaScrap(pre1, configuration[r].step)
        throws == BetaChecksChanges(pre1, step1) /\ changed
        publish == BetaPublishDecision(pre1, step1)
        pre2 == IF pre1 = "alpha" /\ ~throws THEN "beta" ELSE pre1
        conf1 == [configuration EXCEPT ![r].step = step1]
    IN
    /\ pc = "repo"
    /\ variant = "beta"
    /\ configuration' = conf1
    /\ manifest' = IF dryRun THEN manifest
                   ELSE [manifest EXCEPT ![r] = [version |-> IF realign THEN 0 ELSE @.version,
                                                 pre |-> pre2]]
    /\ IF throws
       THEN \* try { await this.publish() } finally { this.saveConfiguration() }
            /\ saved' = SaveConfiguration(conf1, saved, dryRun)
            /\ pc' = AfterThrow(NextPc)
            /\ last' = Ended("error", "publish", Undefined)
            /\ MemoryLost
            /\ UNCHANGED cur
       ELSE IF publish
       THEN /\ pc' = "step"
            /\ idx' = 1
            /\ packageVersion' = IF realign THEN 0 ELSE manifest[r].version
            /\ UNCHANGED <<saved, cur, last, allSkipped, firstRepository, invoked, prev, saved0>>
       ELSE /\ saved' = SaveConfiguration(conf1, saved, dryRun)
            /\ pc' = NextPc
            /\ cur' = NextCur
            /\ UNCHANGED <<idx, packageVersion, last, allSkipped, firstRepository, invoked,
                           prev, saved0>>
    /\ UNCHANGED <<variant, dryRun, runs, clock>>

\* --------------------------------------------------------- publish-external
ExternalPublishDecision(step, changed) ==
    CASE step = Undefined -> changed
      [] step = "complete" -> FALSE
      [] OTHER -> TRUE

\* A faulty variant of ExternalVersion: the patch number is incremented whenever
\* the change check or the pointer asks for a publication.
ExternalIncrementsAlways(pkgv, lastVersion, publish0) == IF publish0 THEN pkgv + 1 ELSE pkgv

\* The version the callback goes on with: the patch number of the manifest is
\* incremented when a publication is asked for and the manifest still carries
\* the last externally published version.
ExternalVersion(pkgv, lastVersion, publish0) ==
    IF pkgv = lastVersion /\ publish0 THEN pkgv + 1 ELSE pkgv

\* The callback of publishRepositories up to the first runStep.
\*   changed  anyChanges(repository, true) || repository.publishExternalAlways
ExternalRepository(changed) ==
    LET r == cur
        step == configuration[r].step
        pkgv == manifest[r].version
        updated == pkgv # configuration[r].lastVersion
        publish0 == ExternalPublishDecision(step, changed)
        publish == updated \/ publish0
        ver == ExternalVersion(pkgv, configuration[r].lastVersion, publish0)
    IN
    /\ pc = "repo"
    /\ variant = "external"
    /\ IF publish
       THEN /\ manifest' = IF step = Undefined
                           THEN [manifest EXCEPT ![r].version = ver] ELSE manifest
            /\ packageVersion' = ver
            /\ pc' = "step"
            /\ idx' = 1
            /\ UNCHANGED <<saved, cur>>
       ELSE \* publishRepositories: saveConfiguration() after the callback
            /\ saved' = SaveConfiguration(configuration, saved, FALSE)
            /\ pc' = NextPc
            /\ cur' = NextCur
            /\ UNCHANGED <<manifest, packageVersion, idx>>
    /\ UNCHANGED <<variant, dryRun, runs, clock, configuration, allSkipped, firstRepository,
                   histVars>>

\* A callback that never tests for unpublished internal changes.
ExternalNeverRefuses(step, publish0, internal) == FALSE

\* publish-external.ts 157-164: a repository that is started anew and is to be
\* published is refused if it has changes since the last internal publication.
\*   publish0  anyChanges(repository, true) || publishExternalAlways
\*   internal  anyChanges(repository, false)
ExternalRefuses(step, publish0, internal) == step = Undefined /\ publish0 /\ internal

\* The callback of publish-external.ts with its test for internal changes: the
\* error leaves the callback before anything is written.
ExternalCallback(changed, internal) ==
    /\ pc = "repo"
    /\ variant = "external"
    /\ IF ExternalRefuses(configuration[cur].step, changed, internal)
       THEN /\ pc' = AfterThrow(NextPc)
            /\ last' = Ended("error", "preamble", Undefined)
            /\ configuration' = saved
            /\ MemoryLost
            /\ UNCHANGED <<variant, dryRun, runs, clock, saved, manifest, cur>>
       ELSE ExternalRepository(changed)

\* ------------------------------------------------------------------ release
\* One iteration of the loop of release() up to the first step.
\*   tagged  the release tag points at HEAD
ReleaseRepository(tagged) ==
    LET r == cur
        state == configuration[r].step
        atVersion == manifest[r].version = configuration[r].lastVersion
        skipRepository == CASE state = Undefined -> atVersion
                            [] state \in {"skipped", "complete"} -> TRUE
                            [] OTHER -> FALSE
        throws == state = Undefined /\ atVersion
                  /\ (~allSkipped \/ (~firstRepository /\ ~tagged))
        conf1 == IF state = Undefined /\ atVersion
                 THEN [configuration EXCEPT ![r].step = "skipped"] ELSE configuration
    IN
    /\ pc = "repo"
    /\ variant = "release"
    /\ IF throws
       THEN /\ pc' = AfterThrow(NextPc)
            /\ last' = Ended("error", "publish", Undefined)
            /\ configuration' = saved
            /\ MemoryLost
            /\ UNCHANGED <<saved, manifest, cur>>
       ELSE IF skipRepository
       THEN /\ configuration' = conf1
            /\ saved' = SaveConfiguration(conf1, saved, FALSE)
            /\ allSkipped' = (allSkipped /\ state # "complete")
            /\ firstRepository' = FALSE
            /\ pc' = NextPc
            /\ cur' = NextCur
            /\ UNCHANGED <<manifest, idx, packageVersion, last, invoked, prev, saved0>>
       ELSE /\ manifest' = IF state = Undefined
                           THEN [manifest EXCEPT ![r].version = configuration[r].lastVersion]
                           ELSE manifest
            /\ allSkipped' = FALSE
            /\ pc' = "step"
            /\ idx' = 1
            /\ packageVersion' = IF state = Undefined THEN configuration[r].lastVersion
                                 ELSE manifest[r].version
            /\ UNCHANGED <<configuration, saved, cur, firstRepository, last, invoked, prev,
                           saved0>>
    /\ UNCHANGED <<variant, dryRun, runs, clock>>

\* ------------------------------------------------------------ step executor
\* A faulty variant of RunStepGuard: a step is never resumed.
RunStepGuardAbsentOnly(pointer, step) == pointer = Undefined

\* runStep()/step(): the body runs if the pointer is absent or names the step.
RunStepGuard(pointer, step) == pointer = Undefined \/ pointer = step

\* `if (hasPushWorkflow)` / `if (hasReleaseWorkflow)` around the two CI waits.
Scheduled(step, push, rel) ==
    /\ step = "workflow (push)" => push
    /\ step = "workflow (release)" => rel

\* A faulty variant of PointerAfterBody: the pointer is cleared in a `finally`.
PointerAlwaysCleared(step, returned) == Undefined

\* The pointer runStep leaves behind once the body has ended.
PointerAfterBody(step, returned) == IF returned THEN Undefined ELSE step

\* publish-external and release save in the `finally` of runStep()/step();
\* PublishBeta.runStep does not save.
RunStepSaves(v) == v # "beta"

\* One runStep()/step() call of the pipeline up to the start of its body, or
\* the `if` that leaves a CI wait out.
\*   push,rel  the workflow files declare a push / release trigger.  The code
\*             reads the files once, before the first step; they do not change
\*             while the process runs, and each flag is used at one place only.
RunStep(push, rel) ==
    LET r == cur
        s == Pipeline(variant)[idx]
    IN
    /\ pc = "step"
    /\ idx \in 1..Len(Pipeline(variant))
    /\ IF Scheduled(s, push, rel) /\ RunStepGuard(configuration[r].step, s)
       THEN /\ configuration' = [configuration EXCEPT ![r].step = s]
            /\ pc' = "body"
            /\ invoked' = Append(invoked, s)
            /\ idx' = idx
       ELSE /\ idx' = idx + 1
            /\ UNCHANGED <<configuration, pc, invoked>>
    /\ UNCHANGED <<variant, dryRun, runs, clock, saved, manifest, cur, packageVersion,
                   allSkipped, firstRepository, prev, last, saved0>>

\* "restore alpha" rewrites the manifest when a dependency was updated.
ManifestAfterBody(step, wrote) ==
    IF step = "restore alpha" /\ wrote
    THEN [manifest EXCEPT ![cur].version = packageVersion] ELSE manifest

\* The body of the step returns.
BodyReturn ==
    LET r == cur
        s == Pipeline(variant)[idx]
        conf1 == [configuration EXCEPT ![r].step = PointerAfterBody(s, TRUE)]
    IN
    /\ pc = "body"
    /\ configuration' = conf1
    /\ saved' = IF RunStepSaves(variant) THEN SaveConfiguration(conf1, saved, dryRun) ELSE saved
    /\ \E wrote \in (IF s = "restore alpha" THEN BOOLEAN ELSE {FALSE}) :
          manifest' = ManifestAfterBody(s, wrote)
    /\ pc' = "step"
    /\ idx' = idx + 1
    /\ UNCHANGED <<variant, dryRun, runs, clock, cur, packageVersion, allSkipped,
                   firstRepository, histVars>>

\* The body of the step throws (a command fails, the CI wait fails, the release
\* cannot be created); a dry run spawns and polls nothing.  The configuration
\* is saved on the way out: in the `finally` of runStep()/step(), or in the
\* `finally` around publish() in publishAll.
BodyThrow ==
    LET r == cur
        s == Pipeline(variant)[idx]
        conf1 == [configuration EXCEPT ![r].step = PointerAfterBody(s, FALSE)]
    IN
    /\ pc = "body"
    /\ ~dryRun
    /\ configuration' = conf1
    /\ saved' = SaveConfiguration(conf1, saved, dryRun)
    /\ \E wrote \in (IF s = "restore alpha" THEN BOOLEAN ELSE {FALSE}) :
          manifest' = ManifestAfterBody(s, wrote)
    /\ pc' = AfterThrow(NextPc)
    /\ last' = Ended("error", "body", s)
    /\ MemoryLost
    /\ UNCHANGED <<variant, dryRun, runs, clock, cur>>

\* What the end of the pipeline records for the repository.
Completed(rep, now, version) ==
    IF variant = "release"
    THEN [rep EXCEPT !.step = "complete"]
    ELSE [step |-> "complete", lastPublished |-> now, lastVersion |-> version]

\* All runStep calls are behind: the repository is marked complete and the
\* configuration is saved (publishAll / publishRepositories / saveState()).
RepositoryComplete ==
    LET r == cur
        conf1 == [configuration EXCEPT ![r] = Completed(@, clock + 1, packageVersion)]
    IN
    /\ pc = "step"
    /\ idx = Len(Pipeline(variant)) + 1
    /\ configuration' = conf1
    /\ clock' = IF variant = "release" THEN clock ELSE clock + 1
    /\ saved' = SaveConfiguration(conf1, saved, dryRun)
    /\ firstRepository' = FALSE
    /\ pc' = NextPc
    /\ cur' = NextCur
    /\ invoked' = <<>>
    /\ UNCHANGED <<variant, dryRun, runs, manifest, idx, packageVersion, allSkipped, prev,
                   last, saved0>>

\* A faulty variant of FinalizeAll: nothing is reset.
FinalizeNothing(conf) == conf

\* finalizeAll() / the then() of publishRepositories: "Publication complete;
\* reset steps to undefined for next run."
FinalizeAll(conf) == [r \in Repos |-> [conf[r] EXCEPT !.step = Undefined]]

\* Every repository has been processed: the pointers are reset and saved
\* (release: the state file is removed); the commit of the configuration that
\* follows may fail.
FinishRun ==
    /\ pc = "finish"
    /\ IF variant = "release"
       THEN /\ saved' = FinalizeAll(saved)
            /\ configuration' = saved'
            /\ last' = Ended("done", "finish", Undefined)
       ELSE /\ configuration' = FinalizeAll(configuration)
            /\ saved' = SaveConfiguration(FinalizeAll(configuration), saved, dryRun)
            /\ \E committed \in BOOLEAN :
                  last' = Ended(IF committed \/ dryRun THEN "done" ELSE "error", "finish", Undefined)
    /\ pc' = "idle"
    /\ MemoryLost
    /\ UNCHANGED <<variant, dryRun, runs, clock, manifest, cur>>

\* --------------------------------------------------------- validateWorkflow
\* "Abort if workflow run not started after 10 queries."
QueryLimit == 10

\* let workflowRunID = -1: no run is tracked.
NoRunID == -1

\* Number of workflow runs the CI provider may hold for the commit.
NumWorkflowRuns == 2

RunIDs == 1..NumWorkflowRuns

\* workflowRun.conclusion of a run whose status is "completed".
Conclusions == {"success", "failure", "cancelled"}

\* What the provider knows of a run: not created yet, status other than
\* "completed", or completed with a conclusion.
RunStates == {"absent", "in_progress"} \cup Conclusions

\* The loop of publish-beta.ts, publish-external.ts and release.ts keeps its
\* locals across the polls ("loop"); the older validateWorkflow declares them
\* inside the handler of each response ("perResponse").
CIVariants == {"loop", "perResponse"}

NoError == [kind |-> "none", conclusion |-> "none"]
ParallelError == [kind |-> "parallel", conclusion |-> "none"]
TimeoutError == [kind |-> "timeout", conclusion |-> "none"]
FailureError(conclusion) == [kind |-> "failure", conclusion |-> conclusion]

Polling == [kind |-> "polling", conclusion |-> "none"]
Returned == [kind |-> "returned", conclusion |-> "none"]
NotWaiting == [kind |-> "idle", conclusion |-> "none"]

\* The responses the provider can give: the runs it holds for the commit, in
\* any order.
Responses ==
    LET visible == {id \in RunIDs : workflowRuns[id] # "absent"}
    IN {resp \in [1..Cardinality(visible) -> visible] :
           \A i, j \in 1..Cardinality(visible) : resp[i] = resp[j] => i = j}

\* A faulty variant of ObserveRun: a second incomplete run replaces the tracked one.
ObserveRunTracksLatest(st, id, status) ==
    IF st.error # NoError THEN st
    ELSE IF status = "in_progress"
    THEN [st EXCEPT !.id = id]
    ELSE IF id = st.id
    THEN IF status # "success"
         THEN [st EXCEPT !.error = FailureError(status)]
         ELSE [st EXCEPT !.completed = TRUE]
    ELSE st

\* A faulty variant of ObserveRun: the conclusion of the completed run is not looked at.
ObserveRunIgnoresConclusion(st, id, status) ==
    IF st.error # NoError THEN st
    ELSE IF status = "in_progress"
    THEN IF id = st.id THEN st
         ELSE IF st.id = NoRunID THEN [st EXCEPT !.id = id]
         ELSE [st EXCEPT !.error = ParallelError]
    ELSE IF id = st.id
    THEN [st EXCEPT !.completed = TRUE]
    ELSE st

\* One iteration of `for (const workflowRun of response.data.workflow_runs)`
\* on st = [id, completed, error]; once an error is thrown nothing more is
\* looked at.
ObserveRun(st, id, status) ==
    IF st.error # NoError THEN st
    ELSE IF status = "in_progress"
    THEN IF id = st.id THEN st
         ELSE IF st.id = NoRunID THEN [st EXCEPT !.id = id]
         ELSE [st EXCEPT !.error = ParallelError]
    ELSE IF id = st.id
    THEN IF status # "success"
         THEN [st EXCEPT !.error = FailureError(status)]
         ELSE [st EXCEPT !.completed = TRUE]
    ELSE st

RECURSIVE ObserveRuns(_, _)
\* The for loop over the runs of one response.
ObserveRuns(resp, st) ==
    IF resp = <<>> THEN st
    ELSE ObserveRuns(Tail(resp), ObserveRun(st, Head(resp), workflowRuns[Head(resp)]))

\* ++queryCount: only equality with QueryLimit is ever tested, so the count is
\* kept up to QueryLimit + 1.
Increment(count) == IF count > QueryLimit THEN count ELSE count + 1

\* How one poll ends, given the locals after the for loop and the new count.
PollOutcome(st, count) ==
    IF st.error # NoError THEN st.error
    ELSE IF count = QueryLimit /\ st.id = NoRunID THEN TimeoutError
    ELSE IF st.completed THEN Returned
    ELSE Polling

\* The wait is not running (the variables of SpecCI under Spec).
CIOff ==
    /\ ciVariant = "loop"
    /\ workflowRuns = [id \in RunIDs |-> "absent"]
    /\ ciOutcome = NotWaiting
    /\ queryCount = 0
    /\ workflowRunID = NoRunID
    /\ completed = FALSE
    /\ response = <<>>
    /\ everSeen = FALSE
    /\ polls = 0
    /\ tick = FALSE

\* validateWorkflow is entered: the provider may already hold runs for the
\* commit (a resumed step, a workflow faster than the first poll).
InitCI ==
    /\ ciVariant \in CIVariants
    /\ workflowRuns \in [RunIDs -> RunStates]
    /\ ciOutcome = Polling
    /\ queryCount = 0
    /\ workflowRunID = NoRunID
    /\ completed = FALSE
    /\ response = <<>>
    /\ everSeen = FALSE
    /\ polls = 0
    /\ tick = FALSE

\* The provider creates a run for the commit.
RunAppears(id) ==
    /\ workflowRuns[id] = "absent"
    /\ workflowRuns' = [workflowRuns EXCEPT ![id] = "in_progress"]
    /\ UNCHANGED <<ciVariant, ciOutcome, queryCount, workflowRunID, completed, response,
                   everSeen, polls, tick>>

\* A run completes with a conclusion.
RunCompletes(id, conclusion) ==
    /\ workflowRuns[id] = "in_progress"
    /\ workflowRuns' = [workflowRuns EXCEPT ![id] = conclusion]
    /\ UNCHANGED <<ciVariant, ciOutcome, queryCount, workflowRunID, completed, response,
                   everSeen, polls, tick>>

\* One pass of the do-while loop: wait 2 s, list the runs for the commit, look
\* at each, count the query.
Poll(resp) ==
    LET carried == ciVariant = "loop"
        st0 == [id |-> IF carried THEN workflowRunID ELSE NoRunID,
                completed |-> IF carried THEN completed ELSE FALSE,
                error |-> NoError]
        st1 == ObserveRuns(resp, st0)
        count == Increment(IF carried THEN queryCount ELSE 0)
    IN
    /\ ciOutcome = Polling
    /\ ciOutcome' = PollOutcome(st1, count)
    /\ queryCount' = IF carried THEN count ELSE 0
    /\ workflowRunID' = IF carried THEN st1.id ELSE NoRunID
    /\ completed' = IF carried THEN st1.completed ELSE FALSE
    /\ response' = resp
    /\ everSeen' = (everSeen \/ (resp # <<>> /\ polls < QueryLimit))
    /\ polls' = Increment(polls)
    /\ tick' = ~tick
    /\ UNCHANGED <<ciVariant, workflowRuns>>

\* ---------------------------------------------------------------- anyChanges
\* anyChanges exists in two forms:
\*   "function"  anyChanges(repository, external) of src/src/publish.ts
\*               (also src/unnamed/part_003); strict means `external`.
\*   "method"    Publish.anyChanges(lastPublished) of publish-beta.ts;
\*               strict means `this.releaseType !== "alpha"`.
ChangeVariants == {"function", "method"}

\* Number of entries `git log` and `git status` report together.
MaxEntries == 2

\* The files of the working tree, as path components.
Paths == {<<"src", "index.ts">>, <<".idea", "workspace.xml">>, <<".github", "ci.yml">>}

\* component.startsWith(".") for the components in use.
StartsWithDot(component) == component \in {".idea", ".github", ".cache"}

\* `this.repository.excludePaths ?? []` / `repository.excludeFiles ?? []`:
\* nothing is configured.
ExcludePaths == {}

\* A reference timestamp: absent, or present with a time.
Absent == <<>>
At(t) == <<t>>

\* Times of the reference timestamp and of the files: a file is as old as
\* the timestamp until it is touched.
Times == 1..2
PublishedTime == CHOOSE t \in Times : \A u \in Times : t <= u
TouchedTime == PublishedTime + 1

\* One line of `git log --name-status` or of `git status --porcelain`:
\* status character, file and, for a rename, the new file.
Entries ==
    {[status |-> st, file |-> f, newFile |-> Undefined] : st \in {"M", "D"}, f \in Paths}
    \cup {entry \in [status : {"R"}, file : Paths, newFile : Paths] :
                entry.file # entry.newFile}

\* An entry of the exclusion list matches the file: the strings are equal, or
\* (publish-beta only) the entry ends with "/" and the file starts with it.
\* An entry is [path, slash]: its components and whether "/" ends it.
Excludes(v, excludePath, addFile) ==
    \/ ~excludePath.slash /\ addFile = excludePath.path
    \/ /\ v = "method"
       /\ excludePath.slash
       /\ Len(excludePath.path) < Len(addFile)
       /\ SubSeq(addFile, 1, Len(excludePath.path)) = excludePath.path

\* The test of processChangedFile on the file to add: hidden files and
\* directories are left out except .github/, as are test/ and the excluded paths.
PathFilter(v, excluded, addFile) ==
    /\ \/ \A i \in DOMAIN addFile : ~StartsWithDot(addFile[i])
       \/ Len(addFile) > 1 /\ addFile[1] = ".github"
    /\ ~(Len(addFile) > 1 /\ addFile[1] = "test")
    /\ ~\E excludePath \in excluded : Excludes(v, excludePath, addFile)

\* The test with the exclusion list of the repository of SpecChanges.
Filter(addFile) == PathFilter(chVariant, ExcludePaths, addFile)

\* A faulty variant of ProcessChangedFile: a deleted file stays in the set.
ProcessChangedFileKeepsDeleted(changedFilesSet, entry) ==
    LET deleteFile == IF entry.status = "R" THEN entry.file ELSE Undefined
        addFile == IF entry.status = "R" THEN entry.newFile
                   ELSE IF entry.status # "D" THEN entry.file ELSE Undefined
        afterDelete == IF deleteFile # Undefined
                       THEN changedFilesSet \ {deleteFile} ELSE changedFilesSet
    IN IF addFile # Undefined /\ addFile \notin afterDelete /\ Filter(addFile)
       THEN afterDelete \cup {addFile}
       ELSE afterDelete

\* processChangedFile(status, file, newFile) on changedFilesSet.
ProcessChangedFile(changedFilesSet, entry) ==
    LET deleteFile == IF entry.status \in {"D", "R"} THEN entry.file ELSE Undefined
        addFile == IF entry.status = "R" THEN entry.newFile
                   ELSE IF entry.status # "D" THEN entry.file ELSE Undefined
        afterDelete == IF deleteFile # Undefined
                       THEN changedFilesSet \ {deleteFile} ELSE changedFilesSet
    IN IF addFile # Undefined /\ addFile \notin afterDelete /\ Filter(addFile)
       THEN afterDelete \cup {addFile}
       ELSE afterDelete

\* The lines of one command's output processed in order.
RECURSIVE ProcessChangedFiles(_, _)
ProcessChangedFiles(changedFilesSet, entries) ==
    IF entries = <<>> THEN changedFilesSet
    ELSE ProcessChangedFiles(ProcessChangedFile(changedFilesSet, Head(entries)), Tail(entries))

ChangesReturned(value, consulted) ==
    [kind |-> "returned", value |-> value, error |-> "none", consulted |-> consulted]
ChangesError(error, consulted) ==
    [kind |-> "error", value |-> FALSE, error |-> error, consulted |-> consulted]
NotChecked == [kind |-> "none", value |-> FALSE, error |-> "none", consulted |-> {}]

\* A faulty variant of AnyChangesOutcome: the function leaves the working
\* tree alone when there is no timestamp, strict or not.
AnyChangesNeverStatusWithoutTimestamp(v, external, ts, log, status, mt, fetchOutput, dependenciesUpdated) ==
    IF v = "method" /\ external /\ fetchOutput
    THEN ChangesError("remote", {"fetch"})
    ELSE LET fetched == IF v = "method" /\ external THEN {"fetch"} ELSE {}
         IN IF ts # Absent
            THEN IF status # <<>> /\ external
                 THEN ChangesError("uncommitted", fetched \cup {"log", "status"})
                 ELSE LET changedFilesSet ==
                              ProcessChangedFiles(ProcessChangedFiles({}, log), status)
                          anyChanges == \E changedFile \in changedFilesSet :
                                            mt[changedFile] > ts[1]
                      IN ChangesReturned(anyChanges \/ (v = "method" /\ dependenciesUpdated),
                                         fetched \cup {"log", "status"})
            ELSE ChangesReturned(TRUE, fetched)

\* anyChanges as a function of what it is given and what git and the file
\* system answer:
\*   v, external            the form and the strictness of the check
\*   ts                     the reference timestamp
\*   log, status            the entries of `git log --since` and `git status`
\*   mt                     the modification times
\*   fetchOutput            `git fetch --porcelain --dry-run` prints something
\*   dependenciesUpdated    this.organizationDependenciesUpdated
AnyChangesOutcome(v, external, ts, log, status, mt, fetchOutput, dependenciesUpdated) ==
    IF v = "method" /\ external /\ fetchOutput
    THEN ChangesError("remote", {"fetch"})
    ELSE LET fetched == IF v = "method" /\ external THEN {"fetch"} ELSE {}
         IN IF ts # Absent
            THEN IF status # <<>> /\ external
                 THEN ChangesError("uncommitted", fetched \cup {"log", "status"})
                 ELSE LET changedFilesSet ==
                              ProcessChangedFiles(ProcessChangedFiles({}, log), status)
                          anyChanges == \E changedFile \in changedFilesSet :
                                            mt[changedFile] > ts[1]
                      IN ChangesReturned(anyChanges \/ (v = "method" /\ dependenciesUpdated),
                                         fetched \cup {"log", "status"})
            ELSE IF v = "function" /\ external
                 THEN IF status # <<>>
                      THEN ChangesError("uncommitted", {"status"})
                      ELSE ChangesReturned(TRUE, {"status"})
                 ELSE ChangesReturned(TRUE, fetched)

ChangesOff ==
    /\ chVariant = "function"
    /\ strict = FALSE
    /\ lastPublished = Absent
    /\ gitLog = <<>>
    /\ gitStatus = <<>>
    /\ mtime = [f \in Paths |-> PublishedTime]
    /\ chPc = "off"
    /\ chOutcome = NotChecked

\* The repository as the last publication left it, before anything is
\* committed or edited.
InitChanges ==
    /\ chVariant \in ChangeVariants
    /\ strict \in BOOLEAN
    /\ lastPublished \in {Absent, At(PublishedTime)}
    /\ gitLog = <<>>
    /\ gitStatus = <<>>
    /\ mtime = [f \in Paths |-> PublishedTime]
    /\ chPc = "idle"
    /\ chOutcome = NotChecked

\* A commit adds a line to what `git log` reports; `git log` lists the commits
\* newest first, so the line of the new commit comes before the others.
CommitFile(entry) ==
    /\ chPc = "idle"
    /\ Len(gitLog) + Len(gitStatus) < MaxEntries
    /\ gitLog' = <<entry>> \o gitLog
    /\ UNCHANGED <<chVariant, strict, lastPublished, gitStatus, mtime, chPc, chOutcome>>

\* An edit of the working tree adds a line to what `git status` reports.
EditFile(entry) ==
    /\ chPc = "idle"
    /\ Len(gitLog) + Len(gitStatus) < MaxEntries
    /\ gitStatus' = Append(gitStatus, entry)
    /\ UNCHANGED <<chVariant, strict, lastPublished, gitLog, mtime, chPc, chOutcome>>

\* A file is written: its modification time moves past the timestamp.
TouchFile(f) ==
    /\ chPc = "idle"
    /\ mtime[f] = PublishedTime
    /\ mtime' = [mtime EXCEPT ![f] = TouchedTime]
    /\ UNCHANGED <<chVariant, strict, lastPublished, gitLog, gitStatus, chPc, chOutcome>>

\* The publish body calls anyChanges; an error it throws ends the run.
AnyChanges(fetchOutput, dependenciesUpdated) ==
    /\ chPc = "idle"
    /\ chOutcome' = AnyChangesOutcome(chVariant, strict, lastPublished, gitLog, gitStatus,
                                      mtime, fetchOutput, dependenciesUpdated)
    /\ chPc' = IF chOutcome'.kind = "error" THEN "aborted" ELSE "checked"
    /\ UNCHANGED <<chVariant, strict, lastPublished, gitLog, gitStatus, mtime>>

\* anyChanges returned: the publish body goes on to its steps.
RunSteps ==
    /\ chPc = "checked"
    /\ chPc' = "steps"
    /\ UNCHANGED <<chVariant, strict, lastPublished, gitLog, gitStatus, mtime, chOutcome>>

\* --------------------------------------------------- organization dependencies
\* publishAll works out, for each repository in configuration order, the
\* organization dependencies of its package and whether one of them has been
\* published since the repository itself was (publish-beta.ts 1350-1443).
NumPackages == 3

\* The repositories of the configuration, in configuration order.
Packages == 1..NumPackages

\* Dependencies between the packages: a package does not depend on itself
\* and no two packages depend on each other directly.  The configuration
\* order is not bound to respect the dependencies.
DependencyGraphs ==
    {g \in [Packages -> SUBSET Packages] :
        \A p \in Packages : p \notin g[p] /\ \A d \in g[p] : p \notin g[d]}

\* A faulty variant of OrganizationDependencies: the dependencies of the
\* dependencies are left out.
OrganizationDependenciesDirectOnly(direct, all) == direct

\* this.organizationDependencies once the dependencies of the direct
\* dependencies (saved when they were processed) have been added.
OrganizationDependencies(direct, all) ==
    direct \cup UNION {all[d][1] : d \in direct}

\* A faulty variant of DependenciesUpdated: a dependency published at the
\* same time counts as published later.
DependenciesUpdatedOrEqual(own, dependencies, published) ==
    \E d \in dependencies : own = Absent \/ published[d][1] >= own[1]

\* The loop that sets this._organizationDependenciesUpdated: own is the
\* repository's timestamp, published the timestamps of the configuration.
DependenciesUpdated(own, dependencies, published) ==
    \E d \in dependencies : own = Absent \/ published[d][1] > own[1]

DepsOff ==
    /\ packageDependencies = [p \in Packages |-> {}]
    /\ lastChannelPublished = [p \in Packages |-> Absent]
    /\ depClock = 0
    /\ depPc = "off"
    /\ depCur = 0
    /\ allOrganizationDependencies = [p \in Packages |-> <<>>]
    /\ organizationDependenciesUpdated = [p \in Packages |-> <<>>]
    /\ publishedNow = {}
    /\ depError = "none"

\* A run of publishAll starts: the timestamps are those of earlier runs.
InitDeps ==
    /\ packageDependencies \in DependencyGraphs
    /\ lastChannelPublished \in [Packages -> {Absent} \cup {At(t) : t \in Times}]
    /\ depClock = TouchedTime + 1
    /\ depPc = "resolve"
    /\ depCur = 1
    /\ allOrganizationDependencies = [p \in Packages |-> <<>>]
    /\ organizationDependenciesUpdated = [p \in Packages |-> <<>>]
    /\ publishedNow = {}
    /\ depError = "none"

\* The part of publishAll before publish(): the dependencies of the
\* package are collected and saved, then compared with the timestamps.
ResolveDependencies ==
    LET r == depCur
        direct == packageDependencies[r]
    IN
    /\ depPc = "resolve"
    /\ IF \E d \in direct : allOrganizationDependencies[d] = <<>>
       THEN \* Object.entries(undefined) throws
            /\ depPc' = "failed"
            /\ depError' = "TypeError"
            /\ UNCHANGED <<allOrganizationDependencies, organizationDependenciesUpdated>>
       ELSE LET dependencies == OrganizationDependencies(direct, allOrganizationDependencies)
            IN /\ allOrganizationDependencies' =
                      [allOrganizationDependencies EXCEPT ![r] = <<dependencies>>]
               /\ IF \E d \in dependencies : lastChannelPublished[d] = Absent
                  THEN /\ depPc' = "failed"
                       /\ depError' = "not published"
                       /\ UNCHANGED organizationDependenciesUpdated
                  ELSE /\ depPc' = "publish"
                       /\ depError' = depError
                       /\ organizationDependenciesUpdated' =
                             [organizationDependenciesUpdated EXCEPT ![r] =
                                 <<DependenciesUpdated(lastChannelPublished[r], dependencies,
                                                       lastChannelPublished)>>]
    /\ UNCHANGED <<packageDependencies, lastChannelPublished, depClock, depCur, publishedNow>>

\* publishAll goes to the next repository, or ends.
NextPackage ==
    IF depCur < NumPackages
    THEN depCur' = depCur + 1 /\ depPc' = "resolve"
    ELSE depCur' = depCur /\ depPc' = "done"

\* publish() publishes the package: its timestamp becomes `new Date()`.
PublishPackage ==
    /\ depPc = "publish"
    /\ lastChannelPublished' = [lastChannelPublished EXCEPT ![depCur] = At(depClock)]
    /\ depClock' = depClock + 1
    /\ publishedNow' = publishedNow \cup {depCur}
    /\ NextPackage
    /\ UNCHANGED <<packageDependencies, allOrganizationDependencies,
                   organizationDependenciesUpdated, depError>>

\* The directory of the repository does not exist (a private repository
\* that is not checked out): publishAll passes it over, nothing is saved for it.
MissingPackage ==
    /\ depPc = "resolve"
    /\ NextPackage
    /\ UNCHANGED <<packageDependencies, lastChannelPublished, depClock,
                   allOrganizationDependencies, organizationDependenciesUpdated,
                   publishedNow, depError>>

\* publish() finds nothing to publish.
SkipPackage ==
    /\ depPc = "publish"
    /\ NextPackage
    /\ UNCHANGED <<packageDependencies, lastChannelPublished, depClock,
                   allOrganizationDependencies, organizationDependenciesUpdated,
                   publishedNow, depError>>

\* ------------------------------------------------- package version strings
\* The largest major, minor and patch number of the versions drawn.
MaxVersionNumber == 10

\* A string is the sequence of its characters.
Digits == <<"0", "1", "2", "3", "4", "5", "6", "7", "8", "9">>
Dot == <<".">>
Dash == <<"-">>
Alpha == <<"a", "l", "p", "h", "a">>
Beta == <<"b", "e", "t", "a">>

IsDigit(c) == \E i \in 1..Len(Digits) : Digits[i] = c
DigitValue(c) == (CHOOSE i \in 1..Len(Digits) : Digits[i] = c) - 1

\* Number(string) of a string of decimal digits.
RECURSIVE Number(_)
Number(s) ==
    IF s = <<>> THEN 0
    ELSE Number(SubSeq(s, 1, Len(s) - 1)) * Len(Digits) + DigitValue(s[Len(s)])

\* String(number), the decimal numeral of a non-negative integer.
RECURSIVE NumberToString(_)
NumberToString(n) ==
    IF n < Len(Digits) THEN <<Digits[n + 1]>>
    ELSE NumberToString(n \div Len(Digits)) \o <<Digits[(n % Len(Digits)) + 1]>>

\* string.split(separator) for a one-character separator.
RECURSIVE Split(_, _)
Split(s, separator) ==
    IF \A i \in 1..Len(s) : s[i] # separator THEN <<s>>
    ELSE LET i == CHOOSE j \in 1..Len(s) :
                      s[j] = separator /\ \A k \in 1..(j - 1) : s[k] # separator
         IN  <<SubSeq(s, 1, i - 1)>> \o Split(SubSeq(s, i + 1, Len(s)), separator)

\* The values of a pre-release identifier: null, undefined or a string.
Null == [kind |-> "null", text |-> <<>>]
UndefinedIdentifier == [kind |-> "undefined", text |-> <<>>]
Text(s) == [kind |-> "string", text |-> s]

\* `${value}` of an identifier that is not null.
IdentifierToString(identifier) ==
    IF identifier.kind = "undefined"
    THEN <<"u", "n", "d", "e", "f", "i", "n", "e", "d">>
    ELSE identifier.text

\* parsePackageVersion of package-configuration.ts.
parsePackageVersion(version) ==
    LET packageVersionSplits == Split(version, "-")
        semanticVersion == packageVersionSplits[1]
        numbers == Split(semanticVersion, ".")
    IN  [majorVersion |-> Number(numbers[1]),
         minorVersion |-> Number(numbers[2]),
         patchVersion |-> Number(numbers[3]),
         preReleaseIdentifier |->
             IF Len(packageVersionSplits) # 1
             THEN Text(Dash \o packageVersionSplits[2])
             ELSE Null]

\* The template both builders share: the identifier follows a dash unless null.
VersionText(parsedPackageVersion) ==
    NumberToString(parsedPackageVersion.majorVersion) \o Dot
        \o NumberToString(parsedPackageVersion.minorVersion) \o Dot
        \o NumberToString(parsedPackageVersion.patchVersion)
        \o (IF parsedPackageVersion.preReleaseIdentifier # Null
            THEN Dash \o IdentifierToString(parsedPackageVersion.preReleaseIdentifier)
            ELSE <<>>)

\* buildPackageVersion of package-configuration.ts.
buildPackageVersion(parsedPackageVersion) == VersionText(parsedPackageVersion)

\* /^(\d+)\.(\d+)\.(\d+)(-(alpha|beta))?$/ matches the version.
VersionMatches(version) ==
    LET splits == Split(version, "-")
        numbers == Split(splits[1], ".")
    IN  /\ Len(splits) \in {1, 2}
        /\ Len(numbers) = 3
        /\ \A i \in 1..3 : /\ numbers[i] # <<>>
                           /\ \A j \in 1..Len(numbers[i]) : IsDigit(numbers[i][j])
        /\ Len(splits) = 2 => splits[2] \in {Alpha, Beta}

\* The fields publishAll sets from the match: the array of the match always
\* has its six elements, the fifth group being undefined when it took no part.
ParseVersion(version) ==
    LET splits == Split(version, "-")
        numbers == Split(splits[1], ".")
    IN  [majorVersion |-> Number(numbers[1]),
         minorVersion |-> Number(numbers[2]),
         patchVersion |-> Number(numbers[3]),
         preReleaseIdentifier |->
             IF Len(splits) = 2 THEN Text(splits[2]) ELSE UndefinedIdentifier]

\* A parameter of updatePackageVersion that is undefined leaves its field:
\* a number is passed as <<n>> and undefined as <<>>.
NoChange == [kind |-> "noChange", text |-> <<>>]

\* updatePackageVersion of the Publish class: the fields after the call.
UpdatedVersion(f, majorVersion, minorVersion, patchVersion, preReleaseIdentifier) ==
    [majorVersion |-> IF majorVersion # <<>> THEN majorVersion[1] ELSE f.majorVersion,
     minorVersion |-> IF minorVersion # <<>> THEN minorVersion[1] ELSE f.minorVersion,
     patchVersion |-> IF patchVersion # <<>> THEN patchVersion[1] ELSE f.patchVersion,
     preReleaseIdentifier |->
         IF preReleaseIdentifier # NoChange THEN preReleaseIdentifier
         ELSE f.preReleaseIdentifier]

\* updatePackageVersion: the version it assigns and saves.
updatePackageVersion(f, majorVersion, minorVersion, patchVersion, preReleaseIdentifier) ==
    VersionText(UpdatedVersion(f, majorVersion, minorVersion, patchVersion,
                               preReleaseIdentifier))

\* The well-formed version strings the model draws from.
WellFormedVersion(major, minor, patch, identifier) ==
    NumberToString(major) \o Dot \o NumberToString(minor) \o Dot \o NumberToString(patch)
        \o (IF identifier = <<>> THEN <<>> ELSE Dash \o identifier)

VersionNumbers == 0..MaxVersionNumber

WellFormedVersions ==
    {WellFormedVersion(major, minor, patch, identifier) :
        major \in VersionNumbers, minor \in VersionNumbers, patch \in VersionNumbers,
        identifier \in {<<>>, Alpha, Beta}}

\* The two parsers: the functions of package-configuration.ts and the
\* fields of the Publish class.
VersionVariants == {"function", "class"}

NotParsed == [majorVersion |-> 0, minorVersion |-> 0, patchVersion |-> 0,
              preReleaseIdentifier |-> Null]

VersionStringOff ==
    /\ vsVariant = "function"
    /\ versionString = <<>>
    /\ parsedVersion = NotParsed
    /\ builtVersion = <<>>
    /\ vsPc = "off"

InitVersionString ==
    /\ vsVariant \in VersionVariants
    /\ versionString \in WellFormedVersions
    /\ parsedVersion = NotParsed
    /\ builtVersion = <<>>
    /\ vsPc = "string"

\* The version of the manifest is parsed; the class rejects a version its
\* expression does not match.
ParseVersionString ==
    /\ vsPc = "string"
    /\ IF vsVariant = "function"
       THEN /\ parsedVersion' = parsePackageVersion(versionString)
            /\ vsPc' = "parsed"
       ELSE IF VersionMatches(versionString)
            THEN /\ parsedVersion' = ParseVersion(versionString)
                 /\ vsPc' = "parsed"
            ELSE /\ parsedVersion' = parsedVersion
                 /\ vsPc' = "invalid"
    /\ UNCHANGED <<vsVariant, versionString, builtVersion>>

\* The version is built from the components as they were parsed.
BuildVersionString ==
    /\ vsPc = "parsed"
    /\ builtVersion' =
           IF vsVariant = "function"
           THEN buildPackageVersion(parsedVersion)
           ELSE updatePackageVersion(parsedVersion, <<>>, <<>>, <<>>, NoChange)
    /\ vsPc' = "built"
    /\ UNCHANGED <<vsVariant, versionString, parsedVersion>>

\* ------------------------------------------- versions, channels and branches
\* One repository and the runs that publish it (specification SpecVersion).
\* The largest major and minor number of the versions and branches drawn,
\* and the number of runs of a behaviour.
MaxComponent == 1
MaxPublishes == 2

Main == <<"m", "a", "i", "n">>
Feature == <<"f", "i", "x">>
VersionBranch(major, minor) ==
    <<"v">> \o NumberToString(major) \o Dot \o NumberToString(minor)

Components == 0..MaxComponent
VersionBranches == {VersionBranch(major, minor) : major \in Components, minor \in Components}
Branches == {Main, Feature} \cup VersionBranches

\* The versions a manifest starts with.
Patches == {0, 1}

ManifestVersions ==
    {WellFormedVersion(major, minor, patch, identifier) :
        major \in Components, minor \in Components, patch \in Patches,
        identifier \in {<<>>, Alpha, Beta}}

\* The programs that publish: the three channels of the Publish class and
\* the scripts publish-internal.ts and publish-external.ts.
Programs == {"alpha", "beta", "production", "internal", "external"}
ClassPrograms == {"alpha", "beta", "production"}

\* /^v(\d+)\.(\d+)$/.exec(branch) is not null.
ParsedBranchNotNull(b) ==
    /\ Len(b) > 0
    /\ b[1] = "v"
    /\ LET numbers == Split(SubSeq(b, 2, Len(b)), ".")
       IN  /\ Len(numbers) = 2
           /\ \A i \in 1..2 : /\ numbers[i] # <<>>
                              /\ \A j \in 1..Len(numbers[i]) : IsDigit(numbers[i][j])

\* The numbers of the match.
ParsedBranch(b) ==
    LET numbers == Split(SubSeq(b, 2, Len(b)), ".")
    IN  [majorVersion |-> Number(numbers[1]), minorVersion |-> Number(numbers[2])]

\* A publishAll without branch tests.
NoBranchCheck(releaseType, b) == FALSE

\* The branch tests of publishAll: a beta release must be from a version
\* branch, a production release from main.  The alpha release has none.
BranchRejected(releaseType, b) ==
    \/ releaseType = "beta" /\ ~ParsedBranchNotNull(b)
    \/ releaseType = "production" /\ b # Main

\* publishAll: the version follows a version branch of another major.minor.
MustRealign(f, b) ==
    /\ ParsedBranchNotNull(b)
    /\ \/ ParsedBranch(b).majorVersion # f.majorVersion
       \/ ParsedBranch(b).minorVersion # f.minorVersion

Realigned(f, b) ==
    UpdatedVersion(f, <<ParsedBranch(b).majorVersion>>, <<ParsedBranch(b).minorVersion>>,
                   <<0>>, Null)

\* An alpha publish that raises the patch number whatever the identifier.
AlphaAlwaysIncrements(f) ==
    UpdatedVersion(f, <<>>, <<>>, <<f.patchVersion + 1>>, Text(Alpha))

\* PublishAlpha.publish, changes detected: away from beta or production the
\* patch number goes up by one and the identifier becomes alpha.
AlphaVersion(f) ==
    IF f.preReleaseIdentifier # Text(Alpha)
    THEN UpdatedVersion(f, <<>>, <<>>, <<f.patchVersion + 1>>, Text(Alpha))
    ELSE f

\* The digits of the date of the n-th run.
Stamp(n) == NumberToString(n)

\* PublishAlpha.publish: the transient version of the publication.
TransientVersion(f, n) ==
    UpdatedVersion(f, <<>>, <<>>, <<>>, Text(Alpha \o Dot \o Stamp(n)))

\* publish-internal.ts: the transient version, built from the manifest's.
InternalTransientVersion(version, n) ==
    LET semanticVersion == Split(version, "-")[1]
        numbers == Split(semanticVersion, ".")
    IN  NumberToString(Number(numbers[1])) \o Dot \o NumberToString(Number(numbers[2]))
            \o Dot \o NumberToString(Number(numbers[3]) + 1)
            \o Dash \o Alpha \o Dot \o Stamp(n)

\* A beta publish that raises the patch number.
BetaIncrementsPatch(f) ==
    UpdatedVersion(f, <<>>, <<>>, <<f.patchVersion + 1>>, Text(Beta))

\* PublishBeta.publish entered with the alpha identifier.
BetaVersion(f) == UpdatedVersion(f, <<>>, <<>>, <<>>, Text(Beta))

NoSnapshot == [version |-> <<>>, fields |-> NotParsed, step |-> Undefined]

VersionOff ==
    /\ program = "alpha"
    /\ branch = Main
    /\ packageJson = <<>>
    /\ backupPackageJson = <<>>
    /\ fields = NotParsed
    /\ betaStep = Undefined
    /\ verPc = "off"
    /\ verError = "none"
    /\ verRuns = 0
    /\ verStart = NoSnapshot
    /\ verEntry = NoSnapshot
    /\ verBefore = <<>>
    /\ verChanged = FALSE
    /\ verStepRan = FALSE

InitVersion ==
    /\ program = "alpha"
    /\ branch = Main
    /\ packageJson \in ManifestVersions
    /\ backupPackageJson = <<>>
    /\ fields = NotParsed
    /\ betaStep = Undefined
    /\ verPc = "idle"
    /\ verError = "none"
    /\ verRuns = 0
    /\ verStart = NoSnapshot
    /\ verEntry = NoSnapshot
    /\ verBefore = <<>>
    /\ verChanged = FALSE
    /\ verStepRan = FALSE

\* A run of one of the programs starts, the repository on some branch.
StartPublish(prog, b) ==
    /\ verPc \in {"idle", "done", "failed", "killed"}
    /\ verRuns < MaxPublishes
    /\ verRuns' = verRuns + 1
    /\ program' = prog
    /\ branch' = b
    /\ fields' = NotParsed
    /\ verPc' = "start"
    /\ verError' = "none"
    /\ verStart' = [version |-> packageJson, fields |-> NotParsed, step |-> betaStep]
    /\ verEntry' = NoSnapshot
    /\ verBefore' = <<>>
    /\ verChanged' = FALSE
    /\ verStepRan' = FALSE
    /\ UNCHANGED <<packageJson, backupPackageJson, betaStep>>

\* publishAll reads the manifest and parses its version.
ReadPackage ==
    /\ verPc = "start"
    /\ program \in ClassPrograms
    /\ IF VersionMatches(packageJson)
       THEN /\ fields' = ParseVersion(packageJson)
            /\ verPc' = "read"
            /\ verError' = verError
       ELSE /\ fields' = fields
            /\ verPc' = "failed"
            /\ verError' = "version"
    /\ UNCHANGED <<program, branch, packageJson, backupPackageJson, betaStep, verRuns,
                   verStart, verEntry, verBefore, verChanged, verStepRan>>

\* publishAll tests the branch against the release type.
CheckBranch ==
    /\ verPc = "read"
    /\ IF BranchRejected(program, branch)
       THEN verPc' = "failed" /\ verError' = "branch"
       ELSE verPc' = "checked" /\ verError' = verError
    /\ UNCHANGED <<program, branch, packageJson, backupPackageJson, fields, betaStep,
                   verRuns, verStart, verEntry, verBefore, verChanged, verStepRan>>

\* publish-external.ts: the callback starts with the test of the branch; what
\* follows it is the pipeline of specification Spec.
ExternalCheckBranch ==
    /\ verPc = "start"
    /\ program = "external"
    /\ IF branch # Main
       THEN verPc' = "failed" /\ verError' = "branch"
       ELSE verPc' = "pipeline" /\ verError' = verError
    /\ UNCHANGED <<program, branch, packageJson, backupPackageJson, fields, betaStep,
                   verRuns, verStart, verEntry, verBefore, verChanged, verStepRan>>

\* publishAll: the version is realigned with a version branch, then publish()
\* is called.  The publish() of the production release is not modelled.
Realign ==
    /\ verPc = "checked"
    /\ LET f == IF MustRealign(fields, branch) THEN Realigned(fields, branch) ELSE fields
           version == IF MustRealign(fields, branch) THEN VersionText(f) ELSE packageJson
       IN  /\ fields' = f
           /\ packageJson' = version
           /\ verEntry' = [version |-> version, fields |-> f, step |-> betaStep]
    /\ verPc' = IF program = "production" THEN "production" ELSE "publish"
    /\ UNCHANGED <<program, branch, backupPackageJson, betaStep, verRuns, verError,
                   verStart, verBefore, verChanged, verStepRan>>

\* PublishAlpha.publish up to the publication to the registry: anyChanges is
\* what the change detection returned, isDependency whether dependencyType is
\* not "none", fails whether lint, build or test threw.
AlphaPublish(anyChanges, isDependency, fails) ==
    /\ verPc = "publish"
    /\ program = "alpha"
    /\ verChanged' = anyChanges
    /\ LET f == IF anyChanges THEN AlphaVersion(fields) ELSE fields
           version == IF f # fields THEN VersionText(f) ELSE packageJson
       IN  IF fails
           THEN /\ fields' = f
                /\ packageJson' = version
                /\ verPc' = "failed"
                /\ verError' = "command"
                /\ UNCHANGED <<backupPackageJson, verBefore>>
           ELSE IF anyChanges /\ isDependency
           THEN /\ backupPackageJson' = <<version>>
                /\ verBefore' = <<version>>
                /\ fields' = TransientVersion(f, verRuns)
                /\ packageJson' = VersionText(TransientVersion(f, verRuns))
                /\ verPc' = "registry"
                /\ verError' = verError
           ELSE /\ fields' = f
                /\ packageJson' = version
                /\ verPc' = "done"
                /\ UNCHANGED <<backupPackageJson, verBefore, verError>>
    /\ UNCHANGED <<program, branch, betaStep, verRuns, verStart, verEntry, verStepRan>>

\* publish-internal.ts up to the publication to the registry.
InternalPublish(anyChanges, isDependency, fails) ==
    /\ verPc = "start"
    /\ program = "internal"
    /\ verChanged' = anyChanges
    /\ verEntry' = [version |-> packageJson, fields |-> NotParsed, step |-> betaStep]
    /\ IF fails
       THEN /\ verPc' = "failed"
            /\ verError' = "command"
            /\ UNCHANGED <<packageJson, backupPackageJson, verBefore>>
       ELSE IF anyChanges /\ isDependency
       THEN /\ backupPackageJson' = <<packageJson>>
            /\ verBefore' = <<packageJson>>
            /\ packageJson' = InternalTransientVersion(packageJson, verRuns)
            /\ verPc' = "registry"
            /\ verError' = verError
       ELSE /\ verPc' = "done"
            /\ UNCHANGED <<packageJson, backupPackageJson, verBefore, verError>>
    /\ UNCHANGED <<program, branch, fields, betaStep, verRuns, verStart, verStepRan>>

\* A finally block that removes the backup and leaves the manifest.
BackupDropped ==
    /\ packageJson' = packageJson
    /\ backupPackageJson' = <<>>

\* finally: the manifest is removed and the backup renamed to it.
Restored ==
    /\ packageJson' = backupPackageJson[1]
    /\ backupPackageJson' = <<>>

\* npm publish, npm view and npm unpublish return.
RegistryReturns ==
    /\ verPc = "registry"
    /\ Restored
    /\ verPc' = "done"
    /\ UNCHANGED <<program, branch, fields, betaStep, verRuns, verError, verStart, verEntry,
                   verBefore, verChanged, verStepRan>>

\* One of them throws.
RegistryThrows ==
    /\ verPc = "registry"
    /\ Restored
    /\ verPc' = "failed"
    /\ verError' = "command"
    /\ UNCHANGED <<program, branch, fields, betaStep, verRuns, verStart, verEntry,
                   verBefore, verChanged, verStepRan>>

\* The process is killed during the publication.
RegistryKilled ==
    /\ verPc = "registry"
    /\ verPc' = "killed"
    /\ UNCHANGED <<program, branch, packageJson, backupPackageJson, fields, betaStep,
                   verRuns, verError, verStart, verEntry, verBefore, verChanged, verStepRan>>

\* PublishBeta.publish up to the steps.
BetaPublish(anyChanges) ==
    /\ verPc = "publish"
    /\ program = "beta"
    /\ LET step == IF fields.preReleaseIdentifier # Text(Beta) THEN Undefined ELSE betaStep
       IN  /\ betaStep' = step
           /\ IF fields.preReleaseIdentifier = Text(Alpha)
              THEN IF anyChanges
                   THEN /\ verPc' = "failed"
                        /\ verError' = "changed"
                        /\ UNCHANGED <<fields, packageJson>>
                   ELSE /\ fields' = BetaVersion(fields)
                        /\ packageJson' = VersionText(BetaVersion(fields))
                        /\ verPc' = "steps"
                        /\ verError' = verError
              ELSE /\ UNCHANGED <<fields, packageJson>>
                   /\ IF step # Undefined
                      THEN verPc' = "steps" /\ verError' = verError
                      ELSE IF anyChanges
                      THEN verPc' = "failed" /\ verError' = "changed"
                      ELSE verPc' = "done" /\ verError' = verError
    /\ verChanged' = anyChanges
    /\ UNCHANGED <<program, branch, backupPackageJson, verRuns, verStart, verEntry,
                   verBefore, verStepRan>>

StepPosition(step) == CHOOSE i \in 1..Len(BetaPipeline) : BetaPipeline[i] = step

\* The steps of the beta publish: they run from the pointer on and all
\* return (failed = 0), or the step at position failed throws.
BetaSteps(failed) ==
    /\ verPc = "steps"
    /\ verStepRan' = TRUE
    /\ IF failed = 0
       THEN /\ betaStep' = Undefined
            /\ verPc' = "done"
            /\ verError' = verError
       ELSE /\ betaStep # Undefined => failed >= StepPosition(betaStep)
            /\ betaStep' = BetaPipeline[failed]
            /\ verPc' = "failed"
            /\ verError' = "command"
    /\ UNCHANGED <<program, branch, packageJson, backupPackageJson, fields, verRuns,
                   verStart, verEntry, verBefore, verChanged>>

\* ------------------------------------------------------------------ dry run
\* A run of the beta publish (the PublishBeta class whose steps start with
\* "install", and the Publish class) on one repository, with the effects it
\* has outside the process (specification SpecDryRun).
InstallPipeline ==
    <<"install", "build", "commit", "tag", "push", "workflow (push)", "release",
      "workflow (release)">>

InstallStepNames == {InstallPipeline[i] : i \in 1..Len(InstallPipeline)}

\* The spawned command of Publish.run(false, ...): nothing in a dry run.
Spawned(dry, command) == IF dry THEN {} ELSE {command}

\* What the body of a step does outside the process: the five commands go
\* through Publish.run, validateWorkflow polls the CI provider and the
\* release step creates the release.
StepEffects(step, dry) ==
    CASE step \in {"install", "build", "commit", "tag", "push"} -> Spawned(dry, step)
      [] step \in {"workflow (push)", "workflow (release)"} -> {"poll"}
      [] step = "release" -> {"release"}

\* savePackageConfiguration and saveConfiguration: logged in a dry run.
Written(dry, file) == IF dry THEN {} ELSE {file}

DryRunOff ==
    /\ drDryRun = FALSE
    /\ hasPushWorkflow = FALSE
    /\ hasReleaseWorkflow = FALSE
    /\ drIdentifier = "beta"
    /\ drStep = Undefined
    /\ drIdx = 0
    /\ drPc = "off"
    /\ effects = {}

InitDryRun ==
    /\ drDryRun \in BOOLEAN
    /\ hasPushWorkflow \in BOOLEAN
    /\ hasReleaseWorkflow \in BOOLEAN
    /\ drIdentifier \in {"alpha", "beta"}
    /\ drStep \in {Undefined} \cup InstallStepNames
    /\ drIdx = 1
    /\ drPc = "publish"
    /\ effects = {}

\* PublishBeta.publish up to the steps; publishAll saves the configuration
\* when publish() is left.
DryPublish(anyChanges) ==
    /\ drPc = "publish"
    /\ LET step == IF drIdentifier # "beta" THEN Undefined ELSE drStep
           throws == IF drIdentifier = "alpha" THEN anyChanges
                     ELSE step = Undefined /\ anyChanges
           publish == drIdentifier = "alpha" \/ step # Undefined
       IN  /\ drStep' = step
           /\ IF throws
              THEN /\ drPc' = "failed"
                   /\ effects' = effects \cup Written(drDryRun, "configuration")
                   /\ drIdentifier' = drIdentifier
              ELSE IF publish
              THEN /\ drPc' = "steps"
                   /\ effects' = effects \cup
                          (IF drIdentifier = "alpha" THEN Written(drDryRun, "manifest") ELSE {})
                   /\ drIdentifier' = "beta"
              ELSE /\ drPc' = "done"
                   /\ effects' = effects \cup Written(drDryRun, "configuration")
                   /\ drIdentifier' = drIdentifier
    /\ UNCHANGED <<drDryRun, hasPushWorkflow, hasReleaseWorkflow, drIdx>>

\* The step of a runStep call is run: the pointer is absent or names it, and
\* a workflow step is called only when the repository has the workflow.
DryStepRuns(step) ==
    /\ drStep \in {Undefined, step}
    /\ step = "workflow (push)" => hasPushWorkflow
    /\ step = "workflow (release)" => hasReleaseWorkflow

\* The next runStep call of PublishBeta.publish; throws says whether the body
\* throws, which a body that only logs does not.
DryRunStep(throws) ==
    /\ drPc = "steps"
    /\ drIdx <= Len(InstallPipeline)
    /\ LET step == InstallPipeline[drIdx]
       IN  IF ~DryStepRuns(step)
           THEN /\ ~throws
                /\ drIdx' = drIdx + 1
                /\ UNCHANGED <<drStep, drPc, effects>>
           ELSE IF throws
           THEN /\ StepEffects(step, drDryRun) # {}
                /\ drStep' = step
                /\ drPc' = "failed"
                /\ effects' = effects \cup StepEffects(step, drDryRun)
                                      \cup Written(drDryRun, "configuration")
                /\ drIdx' = drIdx
           ELSE /\ drStep' = Undefined
                /\ drIdx' = drIdx + 1
                /\ effects' = effects \cup StepEffects(step, drDryRun)
                /\ drPc' = drPc
    /\ UNCHANGED <<drDryRun, hasPushWorkflow, hasReleaseWorkflow, drIdentifier>>

\* The end of publish() and of publishAll: the configuration is saved and
\* committed.
DryFinish ==
    /\ drPc = "steps"
    /\ drIdx = Len(InstallPipeline) + 1
    /\ drStep' = Undefined
    /\ drPc' = "done"
    /\ effects' = effects \cup Written(drDryRun, "configuration") \cup Spawned(drDryRun, "commit")
    /\ UNCHANGED <<drDryRun, hasPushWorkflow, hasReleaseWorkflow, drIdentifier, drIdx>>

\* -------------------------------------------------- the configuration stores
\* The shared store (publish.json) and the local store (publish.local.json),
\* their merge when the program starts and their split when it saves
\* (specification SpecConfiguration).
\* The number of repository names.
NumConfigured == 2

\* A JavaScript object is the sequence of its <<key, value>> entries in
\* insertion order; the repositories of a store or of the configuration
\* are the sequence of their <<name, object>> entries.
ObjectKeys(o) == {o[i][1] : i \in 1..Len(o)}

\* o[key], undefined when the object has no such property.
Property(o, key) ==
    IF key \in ObjectKeys(o)
    THEN o[CHOOSE i \in 1..Len(o) : o[i][1] = key][2]
    ELSE Undefined

\* o[key] = value: an own property keeps its place, a new one comes last.
Assigned(o, key, value) ==
    IF key \in ObjectKeys(o)
    THEN [i \in 1..Len(o) |-> IF o[i][1] = key THEN <<key, value>> ELSE o[i]]
    ELSE Append(o, <<key, value>>)

\* {...a, ...b}
RECURSIVE Spread(_, _)
Spread(a, b) ==
    IF b = <<>> THEN a
    ELSE Spread(Assigned(a, Head(b)[1], Head(b)[2]), Tail(b))

\* {...b, ...a}: the first object overrides the second.
SpreadReversed(a, b) == Spread(b, a)

\* omitOrPick of utility.ts.
RECURSIVE omitOrPick(_, _, _)
omitOrPick(omitting, o, keys) ==
    IF o = <<>> THEN <<>>
    ELSE (IF (Head(o)[1] \in keys) # omitting THEN <<Head(o)>> ELSE <<>>)
             \o omitOrPick(omitting, Tail(o), keys)

omit(o, keys) == omitOrPick(TRUE, o, keys)
pick(o, keys) == omitOrPick(FALSE, o, keys)

\* JSON.parse(JSON.stringify(o)) of an object of strings: a property whose
\* value is undefined is not written.
RECURSIVE Stringified(_)
Stringified(o) ==
    IF o = <<>> THEN <<>>
    ELSE (IF Head(o)[2] # Undefined THEN <<Head(o)>> ELSE <<>>) \o Stringified(Tail(o))

\* The same of the repositories of a store.
StringifiedRepositories(repositories) ==
    [i \in 1..Len(repositories) |-> <<repositories[i][1], Stringified(repositories[i][2])>>]

\* The two programs that keep the stores: publish.ts (the scripts) and the
\* Publish class of publish-beta.ts.
ConfigurationVariants == {"script", "class"}

\* The fields of a repository the model follows: a field of the shared store
\* and the timestamp the program keeps in the local store.
SharedField(v) == IF v = "script" THEN "externalOnly" ELSE "dependencyType"
LocalField(v) == IF v = "script" THEN "lastInternalPublished" ELSE "lastAlphaPublished"

\* The fields of a repository that saving puts in the local store.
LocalRepositoryFields(v) ==
    IF v = "script" THEN {"lastInternalPublished"} ELSE {"platform", "lastAlphaPublished"}

\* The fields of the configuration that saving puts in the local store.
LocalFields(v) == IF v = "script" THEN {"registry"} ELSE {"logLevel", "alphaRegistry"}

\* The name of the registry field.
RegistryField(v) == IF v = "script" THEN "registry" ELSE "alphaRegistry"

RepositoryNames == 1..NumConfigured

\* The repository objects a store starts with, one or both of the fields
\* set; flag and stamp are the values the store gives to the two fields.
RepositoryObjects(v, flag, stamp) ==
    {<<<<SharedField(v), flag>>>>,
     <<<<LocalField(v), stamp>>>>,
     <<<<SharedField(v), flag>>, <<LocalField(v), stamp>>>>}

\* The repositories of a store: up to NumConfigured entries of distinct names.
StoreRepositories(objects) ==
    {r \in UNION {[1..n -> RepositoryNames \X objects] : n \in 0..NumConfigured} :
        \A i, j \in 1..Len(r) : i # j => r[i][1] # r[j][1]}

\* The local store is read by key only: its entries are drawn in one order.
Ascending(r) == \A i, j \in 1..Len(r) : i < j => r[i][1] < r[j][1]

RepositoryOf(repositories, name) ==
    IF \E i \in 1..Len(repositories) : repositories[i][1] = name
    THEN repositories[CHOOSE i \in 1..Len(repositories) : repositories[i][1] = name][2]
    ELSE <<>>

RepositoryKeys(repositories) == {repositories[i][1] : i \in 1..Len(repositories)}

\* A merge in which the shared store overrides the local store.
MergedSharedFirst(shared, local) ==
    [top |-> Spread(omit(shared.top, {"repositories"}), omit(local.top, {"repositories"})),
     repositories |->
         [i \in 1..Len(shared.repositories) |->
             <<shared.repositories[i][1],
               SpreadReversed(shared.repositories[i][2],
                              RepositoryOf(local.repositories, shared.repositories[i][1]))>>]]

\* The merge of the shared and the local configuration.
Merged(shared, local) ==
    [top |-> Spread(omit(shared.top, {"repositories"}), omit(local.top, {"repositories"})),
     repositories |->
         [i \in 1..Len(shared.repositories) |->
             <<shared.repositories[i][1],
               Spread(shared.repositories[i][2],
                      RepositoryOf(local.repositories, shared.repositories[i][1]))>>]]

\* saveConfiguration: what it writes to the shared store.
SavedShared(v, c) ==
    [top |-> Stringified(omit(c.top, LocalFields(v) \cup {"repositories"})),
     repositories |->
         StringifiedRepositories(
             [i \in 1..Len(c.repositories) |->
                 <<c.repositories[i][1],
                   omit(c.repositories[i][2], LocalRepositoryFields(v))>>])]

\* repository.externalOnly ?? false
ExternalOnly(repository) == Property(repository, "externalOnly") = "true"

\* saveLocalRepositories of publish.ts: no entry for an external-only repository.
RECURSIVE LocalEntries(_, _)
LocalEntries(v, repositories) ==
    IF repositories = <<>> THEN <<>>
    ELSE (IF v = "script" /\ ExternalOnly(Head(repositories)[2])
          THEN <<>>
          ELSE <<<<Head(repositories)[1],
                   pick(Head(repositories)[2], LocalRepositoryFields(v))>>>>)
             \o LocalEntries(v, Tail(repositories))

\* saveConfiguration: what it writes to the local store.
SavedLocal(v, c) ==
    [top |-> Stringified(pick(c.top, LocalFields(v))),
     repositories |-> StringifiedRepositories(LocalEntries(v, c.repositories))]

NoConfiguration == [top |-> <<>>, repositories |-> <<>>]

ConfigurationOff ==
    /\ cfgVariant = "script"
    /\ sharedStore = NoConfiguration
    /\ localStore = NoConfiguration
    /\ cfg = NoConfiguration
    /\ cfgSaved = NoConfiguration
    /\ cfgPc = "off"

InitConfiguration ==
    /\ cfgVariant \in ConfigurationVariants
    /\ \E r \in StoreRepositories(RepositoryObjects(cfgVariant, "true", "shared")) :
           sharedStore = [top |-> <<<<"organization", "shared">>>>, repositories |-> r]
    /\ \E r \in StoreRepositories(RepositoryObjects(cfgVariant, "false", "local")) :
           /\ Ascending(r)
           /\ localStore = [top |-> <<<<RegistryField(cfgVariant), "local">>>>,
                            repositories |-> r]
    /\ cfg = NoConfiguration
    /\ cfgSaved = NoConfiguration
    /\ cfgPc = "stored"

\* The program starts: the stores are merged into the configuration.
LoadConfiguration ==
    /\ cfgPc = "stored"
    /\ cfg' = Merged(sharedStore, localStore)
    /\ cfgPc' = "loaded"
    /\ UNCHANGED <<cfgVariant, sharedStore, localStore, cfgSaved>>

\* The program publishes a repository and sets its timestamp.
SetPublished(i) ==
    /\ cfgPc \in {"loaded", "published"}
    /\ i \in 1..Len(cfg.repositories)
    /\ cfg' = [cfg EXCEPT !.repositories[i][2] = Assigned(@, LocalField(cfgVariant), "now")]
    /\ cfgPc' = "published"
    /\ UNCHANGED <<cfgVariant, sharedStore, localStore, cfgSaved>>

\* saveConfiguration
SaveStores ==
    /\ cfgPc \in {"loaded", "published"}
    /\ sharedStore' = SavedShared(cfgVariant, cfg)
    /\ localStore' = SavedLocal(cfgVariant, cfg)
    /\ cfgSaved' = cfg
    /\ cfgPc' = "saved"
    /\ UNCHANGED <<cfgVariant, cfg>>

\* The next process starts and merges the stores as they were saved.
ReloadConfiguration ==
    /\ cfgPc = "saved"
    /\ cfg' = Merged(sharedStore, localStore)
    /\ cfgPc' = "reloaded"
    /\ UNCHANGED <<cfgVariant, sharedStore, localStore, cfgSaved>>

\* ------------------------------------------------------------ the path filter
\* One line of `git log` or `git status` that adds or modifies a file, taken
\* through processChangedFile and the final loop of anyChanges, for the files
\* and the exclusion lists below.
FilterPaths ==
    {<<"src", "index.ts">>, <<"src", ".cache", "x.ts">>, <<".idea", "workspace.xml">>,
     <<".github", "ci.yml">>, <<"test", "fixtures", "x.ts">>, <<"dist", "index.js">>,
     <<"dist", "lib", "a.js">>}

ExcludeLists ==
    {{}, {[path |-> <<"dist", "index.js">>, slash |-> FALSE]},
     {[path |-> <<"dist">>, slash |-> TRUE]}, {[path |-> <<"dist">>, slash |-> FALSE]}}

FilterOff ==
    /\ flVariant = "function"
    /\ excludePaths = {}
    /\ flFile = <<"src", "index.ts">>
    /\ flTouched = FALSE
    /\ flSet = {}
    /\ flPc = "off"
    /\ flAnyChanges = FALSE

InitFilter ==
    /\ flVariant \in ChangeVariants
    /\ excludePaths \in ExcludeLists
    /\ flFile \in FilterPaths
    /\ flTouched \in BOOLEAN
    /\ flSet = {}
    /\ flPc = "line"
    /\ flAnyChanges = FALSE

\* processChangedFile(status, file, undefined) for a status other than "D" and
\* "R": the file is added if it passes the test.
ProcessAddedFile ==
    /\ flPc = "line"
    /\ flSet' = IF flFile \notin flSet /\ PathFilter(flVariant, excludePaths, flFile)
                THEN flSet \cup {flFile} ELSE flSet
    /\ flPc' = "processed"
    /\ UNCHANGED <<flVariant, excludePaths, flFile, flTouched, flAnyChanges>>

\* The loop over changedFilesSet that compares the modification times.
CompareTimes ==
    /\ flPc = "processed"
    /\ flAnyChanges' = \E f \in flSet : f = flFile /\ flTouched
    /\ flPc' = "checked"
    /\ UNCHANGED <<flVariant, excludePaths, flFile, flTouched, flSet>>

\* ------------------------------------------------------ the working directory
\* The loop over the repositories of publishAll (publish-beta.ts) and of
\* publishRepositories (publish.ts), with the directory each `git` query runs
\* in. Directory 0 is the directory the program was started in; directory r is
\* the directory of repository r.
startDirectory == 0

Directories == {startDirectory} \cup Repos

CheckedOut == {Main, VersionBranch(MaxComponent, MaxComponent)}

ReleaseTypes == ClassPrograms \cup {"external"}

CwdOff ==
    /\ wdRelease = "alpha"
    /\ wdBranchOf = [d \in Directories |-> Main]
    /\ wdExists = [r \in Repos |-> TRUE]
    /\ cwd = startDirectory
    /\ wdIdx = 1
    /\ wdPc = "off"
    /\ wdBranch = <<>>
    /\ wdQueries = {}

InitCwd ==
    /\ wdRelease \in ReleaseTypes
    /\ wdBranchOf \in [Directories -> CheckedOut]
    /\ wdExists \in [Repos -> BOOLEAN]
    /\ cwd = startDirectory
    /\ wdIdx = 1
    /\ wdPc = "loop"
    /\ wdBranch = <<>>
    /\ wdQueries = {}

\* `git branch --show-current`, run in the working directory of the process.
ShowCurrent(r) ==
    /\ wdBranch' = wdBranchOf[cwd]
    /\ wdQueries' = wdQueries \cup {<<r, "branch", cwd>>}

\* The branch is not the one the release type asks for: the tests of
\* publishAll, and of the callback of publish-external.ts.
WrongBranch(releaseType, b) ==
    \/ BranchRejected(releaseType, b)
    \/ releaseType = "external" /\ b # Main

\* publishAll, from the head of the loop to process.chdir(directory): the
\* branch is read, then the directory is entered if it exists; a repository
\* without a directory is passed over, or ends the run if others depend on it.
EnterRepository(external) ==
    /\ wdPc = "loop"
    /\ wdRelease # "external"
    /\ wdIdx <= NumRepos
    /\ ShowCurrent(wdIdx)
    /\ IF wdExists[wdIdx]
       THEN cwd' = wdIdx /\ wdPc' = "entered" /\ wdIdx' = wdIdx
       ELSE /\ cwd' = cwd
            /\ wdPc' = IF external THEN "done" ELSE "loop"
            /\ wdIdx' = IF external THEN wdIdx ELSE wdIdx + 1
    /\ UNCHANGED <<wdRelease, wdBranchOf, wdExists>>

\* publishAll: the tests of the branch against the release type.
ValidateBranch ==
    /\ wdPc = "entered"
    /\ wdRelease # "external"
    /\ wdPc' = IF WrongBranch(wdRelease, wdBranch) THEN "done" ELSE "validated"
    /\ UNCHANGED <<wdRelease, wdBranchOf, wdExists, cwd, wdIdx, wdBranch, wdQueries>>

\* publishRepositories: process.chdir, which throws for a missing directory,
\* then the head of the callback of publish-external.ts, which reads the branch.
ChdirAndCallback ==
    /\ wdPc = "loop"
    /\ wdRelease = "external"
    /\ wdIdx <= NumRepos
    /\ IF wdExists[wdIdx]
       THEN /\ cwd' = wdIdx
            /\ wdBranch' = wdBranchOf[wdIdx]
            /\ wdQueries' = wdQueries \cup {<<wdIdx, "branch", wdIdx>>}
            /\ wdPc' = IF WrongBranch(wdRelease, wdBranchOf[wdIdx]) THEN "done" ELSE "validated"
       ELSE /\ wdPc' = "done"
            /\ UNCHANGED <<cwd, wdBranch, wdQueries>>
    /\ UNCHANGED <<wdRelease, wdBranchOf, wdExists, wdIdx>>

\* The publication of the repository: anyChanges reads the log and the status,
\* the wait for the workflow reads the commit; the repository is published
\* (threw = FALSE) or the run ends where it is.
PublishRepository(threw) ==
    /\ wdPc = "validated"
    /\ wdQueries' = wdQueries \cup {<<wdIdx, "log", cwd>>, <<wdIdx, "status", cwd>>,
                                      <<wdIdx, "rev-parse", cwd>>}
    /\ wdPc' = IF threw THEN "done" ELSE "loop"
    /\ wdIdx' = IF threw THEN wdIdx ELSE wdIdx + 1
    /\ UNCHANGED <<wdRelease, wdBranchOf, wdExists, cwd, wdBranch>>

\* After the last repository: process.chdir(startDirectory).
ReturnToStart ==
    /\ wdPc = "loop"
    /\ wdIdx > NumRepos
    /\ cwd' = startDirectory
    /\ wdPc' = "done"
    /\ UNCHANGED <<wdRelease, wdBranchOf, wdExists, wdIdx, wdBranch, wdQueries>>

\* The run of publish-beta and of publish-external with a record of what the
\* decision of the callback was given; the record lasts one step.
NotAsked ==
    [set |-> FALSE, identifier |-> "none", pointer |-> Undefined, publish |-> FALSE,
     changes |-> FALSE]

Asked(identifier, pointer, publish, changes) ==
    [set |-> TRUE, identifier |-> identifier, pointer |-> pointer, publish |-> publish,
     changes |-> changes]

RefuseOff == asked = NotAsked

\* ------------------------------------------------------------ specification
\* The later specifications are not running.
\* The last-published timestamp and version of the repositories of `disk`.
Published(disk) == [r \in Repos |-> <<disk[r].lastPublished, disk[r].lastVersion>>]

CycleOff == returnedSteps = {} /\ startPublished = [r \in Repos |-> <<0, 0>>]

RestOff == FilterOff /\ CwdOff /\ RefuseOff

LateOff == CycleOff /\ RestOff

MoreOff == VersionStringOff /\ VersionOff /\ DryRunOff /\ ConfigurationOff /\ LateOff

\* The publish programs are not running (the variables of Spec under SpecCI).
PublishOff ==
    /\ InitCommon
    /\ variant = "beta"
    /\ manifest = [r \in Repos |-> [version |-> 1, pre |-> "beta"]]
    /\ dryRun = FALSE

\* The specifications of the pipeline, the CI wait, the change detection
\* and the dependencies are not running.
CoreOff == PublishOff /\ CIOff /\ ChangesOff /\ DepsOff

Init == InitCommon /\ dryRun = FALSE /\ CIOff /\ ChangesOff /\ DepsOff /\ MoreOff

Next ==
    \/ StartRun /\ UNCHANGED <<ciVars, chVars, depVars, moreVars>>
    \/ Kill /\ UNCHANGED <<ciVars, chVars, depVars, moreVars>>
    \/ PreambleThrow /\ UNCHANGED <<ciVars, chVars, depVars, moreVars>>
    \/ BetaMissing /\ UNCHANGED <<ciVars, chVars, depVars, moreVars>>
    \/ \E realign, changed \in BOOLEAN : BetaRepository(realign, changed) /\ UNCHANGED <<ciVars, chVars, depVars, moreVars>>
    \/ \E changed \in BOOLEAN : ExternalRepository(changed) /\ UNCHANGED <<ciVars, chVars, depVars, moreVars>>
    \/ \E tagged \in BOOLEAN : ReleaseRepository(tagged) /\ UNCHANGED <<ciVars, chVars, depVars, moreVars>>
    \/ \E push, rel \in BOOLEAN : RunStep(push, rel) /\ UNCHANGED <<ciVars, chVars, depVars, moreVars>>
    \/ BodyReturn /\ UNCHANGED <<ciVars, chVars, depVars, moreVars>>
    \/ BodyThrow /\ UNCHANGED <<ciVars, chVars, depVars, moreVars>>
    \/ RepositoryComplete /\ UNCHANGED <<ciVars, chVars, depVars, moreVars>>
    \/ FinishRun /\ UNCHANGED <<ciVars, chVars, depVars, moreVars>>

Spec == Init /\ [][Next]_vars

CIInit == InitCI /\ PublishOff /\ ChangesOff /\ DepsOff /\ MoreOff

CINext ==
    \/ \E id \in RunIDs : RunAppears(id) /\ UNCHANGED <<publishVars, chVars, depVars, moreVars>>
    \/ \E id \in RunIDs, conclusion \in Conclusions :
          RunCompletes(id, conclusion) /\ UNCHANGED <<publishVars, chVars, depVars, moreVars>>
    \/ \E resp \in Responses : Poll(resp) /\ UNCHANGED <<publishVars, chVars, depVars, moreVars>>

SpecCI == CIInit /\ [][CINext]_vars

\* The provider keeps answering the polls, and a run that has started completes.
SpecCIFair ==
    /\ CIInit
    /\ [][CINext]_vars
    /\ WF_vars(\E resp \in Responses : Poll(resp) /\ UNCHANGED <<publishVars, chVars, depVars, moreVars>>)
    /\ WF_vars(\E id \in RunIDs, conclusion \in Conclusions :
                   RunCompletes(id, conclusion) /\ UNCHANGED <<publishVars, chVars, depVars, moreVars>>)

ChangesInit == InitChanges /\ PublishOff /\ CIOff /\ DepsOff /\ MoreOff

ChangesNext ==
    \/ \E entry \in Entries : CommitFile(entry) /\ UNCHANGED <<publishVars, ciVars, depVars, moreVars>>
    \/ \E entry \in Entries : EditFile(entry) /\ UNCHANGED <<publishVars, ciVars, depVars, moreVars>>
    \/ \E f \in Paths : TouchFile(f) /\ UNCHANGED <<publishVars, ciVars, depVars, moreVars>>
    \/ \E fetchOutput, dependenciesUpdated \in BOOLEAN :
          AnyChanges(fetchOutput, dependenciesUpdated) /\ UNCHANGED <<publishVars, ciVars, depVars, moreVars>>
    \/ RunSteps /\ UNCHANGED <<publishVars, ciVars, depVars, moreVars>>

SpecChanges == ChangesInit /\ [][ChangesNext]_vars

DepsInit == InitDeps /\ PublishOff /\ CIOff /\ ChangesOff /\ MoreOff

DepsNext ==
    \/ ResolveDependencies /\ UNCHANGED <<publishVars, ciVars, chVars, moreVars>>
    \/ PublishPackage /\ UNCHANGED <<publishVars, ciVars, chVars, moreVars>>
    \/ SkipPackage /\ UNCHANGED <<publishVars, ciVars, chVars, moreVars>>
    \/ MissingPackage /\ UNCHANGED <<publishVars, ciVars, chVars, moreVars>>

SpecDeps == DepsInit /\ [][DepsNext]_vars

VersionStringInit == InitVersionString /\ CoreOff /\ VersionOff /\ DryRunOff /\ ConfigurationOff /\ LateOff

VersionStringNext ==
    \/ ParseVersionString /\ UNCHANGED <<coreVars, verVars, drVars, cfgVars, lateVars>>
    \/ BuildVersionString /\ UNCHANGED <<coreVars, verVars, drVars, cfgVars, lateVars>>

SpecVersionString == VersionStringInit /\ [][VersionStringNext]_vars

VersionInit == InitVersion /\ CoreOff /\ VersionStringOff /\ DryRunOff /\ ConfigurationOff /\ LateOff

VersionNext ==
    \/ \E prog \in Programs, b \in Branches :
          StartPublish(prog, b) /\ UNCHANGED <<coreVars, vsVars, drVars, cfgVars, lateVars>>
    \/ ReadPackage /\ UNCHANGED <<coreVars, vsVars, drVars, cfgVars, lateVars>>
    \/ CheckBranch /\ UNCHANGED <<coreVars, vsVars, drVars, cfgVars, lateVars>>
    \/ ExternalCheckBranch /\ UNCHANGED <<coreVars, vsVars, drVars, cfgVars, lateVars>>
    \/ Realign /\ UNCHANGED <<coreVars, vsVars, drVars, cfgVars, lateVars>>
    \/ \E anyChanges, isDependency, fails \in BOOLEAN :
          AlphaPublish(anyChanges, isDependency, fails) /\ UNCHANGED <<coreVars, vsVars, drVars, cfgVars, lateVars>>
    \/ \E anyChanges, isDependency, fails \in BOOLEAN :
          InternalPublish(anyChanges, isDependency, fails) /\ UNCHANGED <<coreVars, vsVars, drVars, cfgVars, lateVars>>
    \/ RegistryReturns /\ UNCHANGED <<coreVars, vsVars, drVars, cfgVars, lateVars>>
    \/ RegistryThrows /\ UNCHANGED <<coreVars, vsVars, drVars, cfgVars, lateVars>>
    \/ RegistryKilled /\ UNCHANGED <<coreVars, vsVars, drVars, cfgVars, lateVars>>
    \/ \E anyChanges \in BOOLEAN : BetaPublish(anyChanges) /\ UNCHANGED <<coreVars, vsVars, drVars, cfgVars, lateVars>>
    \/ \E failed \in 0..Len(BetaPipeline) : BetaSteps(failed) /\ UNCHANGED <<coreVars, vsVars, drVars, cfgVars, lateVars>>

SpecVersion == VersionInit /\ [][VersionNext]_vars

DryRunInit == InitDryRun /\ CoreOff /\ VersionStringOff /\ VersionOff /\ ConfigurationOff /\ LateOff

DryRunNext ==
    \/ \E anyChanges \in BOOLEAN : DryPublish(anyChanges) /\ UNCHANGED <<coreVars, vsVars, verVars, cfgVars, lateVars>>
    \/ \E throws \in BOOLEAN : DryRunStep(throws) /\ UNCHANGED <<coreVars, vsVars, verVars, cfgVars, lateVars>>
    \/ DryFinish /\ UNCHANGED <<coreVars, vsVars, verVars, cfgVars, lateVars>>

SpecDryRun == DryRunInit /\ [][DryRunNext]_vars

ConfigurationInit == InitConfiguration /\ CoreOff /\ VersionStringOff /\ VersionOff /\ DryRunOff /\ LateOff

ConfigurationNext ==
    \/ LoadConfiguration /\ UNCHANGED <<coreVars, vsVars, verVars, drVars, lateVars>>
    \/ \E i \in RepositoryNames : SetPublished(i) /\ UNCHANGED <<coreVars, vsVars, verVars, drVars, lateVars>>
    \/ SaveStores /\ UNCHANGED <<coreVars, vsVars, verVars, drVars, lateVars>>
    \/ ReloadConfiguration /\ UNCHANGED <<coreVars, vsVars, verVars, drVars, lateVars>>

SpecConfiguration == ConfigurationInit /\ [][ConfigurationNext]_vars

\* The pipeline of Spec with the history of the step bodies that returned and
\* of the last-published fields at the start of the run.  The cycle of a
\* repository lasts until the pointers are reset at the end of a run over every
\* repository.
CycleInit ==
    /\ InitCommon /\ dryRun = FALSE /\ CIOff /\ ChangesOff /\ DepsOff
    /\ VersionStringOff /\ VersionOff /\ DryRunOff /\ ConfigurationOff /\ RestOff
    /\ returnedSteps = {}
    /\ startPublished = Published(saved)

CycleNext ==
    \/ StartRun /\ startPublished' = Published(saved)
          /\ UNCHANGED <<ciVars, chVars, depVars, vsVars, verVars, drVars, cfgVars, returnedSteps, restVars>>
    \/ Kill /\ UNCHANGED <<ciVars, chVars, depVars, vsVars, verVars, drVars, cfgVars, cycVars, restVars>>
    \/ PreambleThrow /\ UNCHANGED <<ciVars, chVars, depVars, vsVars, verVars, drVars, cfgVars, cycVars, restVars>>
    \/ BetaMissing /\ UNCHANGED <<ciVars, chVars, depVars, vsVars, verVars, drVars, cfgVars, cycVars, restVars>>
    \/ \E realign, changed \in BOOLEAN :
          BetaRepository(realign, changed)
          /\ UNCHANGED <<ciVars, chVars, depVars, vsVars, verVars, drVars, cfgVars, cycVars, restVars>>
    \/ \E changed \in BOOLEAN :
          ExternalRepository(changed)
          /\ UNCHANGED <<ciVars, chVars, depVars, vsVars, verVars, drVars, cfgVars, cycVars, restVars>>
    \/ \E tagged \in BOOLEAN :
          ReleaseRepository(tagged)
          /\ UNCHANGED <<ciVars, chVars, depVars, vsVars, verVars, drVars, cfgVars, cycVars, restVars>>
    \/ \E push, rel \in BOOLEAN :
          RunStep(push, rel)
          /\ UNCHANGED <<ciVars, chVars, depVars, vsVars, verVars, drVars, cfgVars, cycVars, restVars>>
    \/ BodyReturn /\ returnedSteps' = returnedSteps \cup {<<cur, Pipeline(variant)[idx]>>}
          /\ UNCHANGED <<ciVars, chVars, depVars, vsVars, verVars, drVars, cfgVars, startPublished, restVars>>
    \/ BodyThrow /\ UNCHANGED <<ciVars, chVars, depVars, vsVars, verVars, drVars, cfgVars, cycVars, restVars>>
    \/ RepositoryComplete /\ UNCHANGED <<ciVars, chVars, depVars, vsVars, verVars, drVars, cfgVars, cycVars, restVars>>
    \/ FinishRun /\ returnedSteps' = {}
          /\ UNCHANGED <<ciVars, chVars, depVars, vsVars, verVars, drVars, cfgVars, startPublished, restVars>>

SpecCycle == CycleInit /\ [][CycleNext]_vars

\* The runs of publish-external alone.
ExternalInit == Init /\ variant = "external"

ExternalNext ==
    \/ StartRun /\ UNCHANGED <<ciVars, chVars, depVars, moreVars>>
    \/ Kill /\ UNCHANGED <<ciVars, chVars, depVars, moreVars>>
    \/ PreambleThrow /\ UNCHANGED <<ciVars, chVars, depVars, moreVars>>
    \/ \E changed \in BOOLEAN : ExternalRepository(changed) /\ UNCHANGED <<ciVars, chVars, depVars, moreVars>>
    \/ \E push, rel \in BOOLEAN : RunStep(push, rel) /\ UNCHANGED <<ciVars, chVars, depVars, moreVars>>
    \/ BodyReturn /\ UNCHANGED <<ciVars, chVars, depVars, moreVars>>
    \/ BodyThrow /\ UNCHANGED <<ciVars, chVars, depVars, moreVars>>
    \/ RepositoryComplete /\ UNCHANGED <<ciVars, chVars, depVars, moreVars>>
    \/ FinishRun /\ UNCHANGED <<ciVars, chVars, depVars, moreVars>>

SpecExternal == ExternalInit /\ [][ExternalNext]_vars

FilterInit ==
    /\ InitFilter /\ CoreOff
    /\ VersionStringOff /\ VersionOff /\ DryRunOff /\ ConfigurationOff /\ CycleOff
    /\ CwdOff /\ RefuseOff

FilterNext ==
    \/ ProcessAddedFile /\ UNCHANGED <<coreVars, vsVars, verVars, drVars, cfgVars, cycVars, wdVars, rfVars>>
    \/ CompareTimes /\ UNCHANGED <<coreVars, vsVars, verVars, drVars, cfgVars, cycVars, wdVars, rfVars>>

SpecFilter == FilterInit /\ [][FilterNext]_vars

CwdOthers == <<coreVars, vsVars, verVars, drVars, cfgVars, cycVars, flVars, rfVars>>

CwdInit ==
    /\ InitCwd /\ CoreOff
    /\ VersionStringOff /\ VersionOff /\ DryRunOff /\ ConfigurationOff /\ CycleOff
    /\ FilterOff /\ RefuseOff

CwdNext ==
    \/ \E external \in BOOLEAN : EnterRepository(external) /\ UNCHANGED CwdOthers
    \/ ValidateBranch /\ UNCHANGED CwdOthers
    \/ ChdirAndCallback /\ UNCHANGED CwdOthers
    \/ \E threw \in BOOLEAN : PublishRepository(threw) /\ UNCHANGED CwdOthers
    \/ ReturnToStart /\ UNCHANGED CwdOthers

SpecCwd == CwdInit /\ [][CwdNext]_vars

RefuseOthers == <<ciVars, chVars, depVars, vsVars, verVars, drVars, cfgVars, cycVars, flVars, wdVars>>

RefuseInit ==
    /\ InitCommon /\ variant \in {"beta", "external"} /\ dryRun = FALSE
    /\ CIOff /\ ChangesOff /\ DepsOff
    /\ VersionStringOff /\ VersionOff /\ DryRunOff /\ ConfigurationOff /\ CycleOff
    /\ FilterOff /\ CwdOff /\ RefuseOff

\* The runs end by themselves here; a process stopped from outside is in Spec.
RefuseNext ==
    \/ StartRun /\ asked' = NotAsked /\ UNCHANGED RefuseOthers
    \/ PreambleThrow /\ asked' = NotAsked /\ UNCHANGED RefuseOthers
    \/ BetaMissing /\ asked' = NotAsked /\ UNCHANGED RefuseOthers
    \/ \E realign, changed \in BOOLEAN :
          /\ BetaRepository(realign, changed)
          /\ asked' = Asked(IF realign THEN "none" ELSE manifest[cur].pre,
                            saved[cur].step, FALSE, changed)
          /\ UNCHANGED RefuseOthers
    \/ \E changed, internal \in BOOLEAN :
          /\ ExternalCallback(changed, internal)
          /\ asked' = Asked("none", saved[cur].step, changed, internal)
          /\ UNCHANGED RefuseOthers
    \/ \E push, rel \in BOOLEAN :
          RunStep(push, rel) /\ asked' = NotAsked /\ UNCHANGED RefuseOthers
    \/ BodyReturn /\ asked' = NotAsked /\ UNCHANGED RefuseOthers
    \/ BodyThrow /\ asked' = NotAsked /\ UNCHANGED RefuseOthers
    \/ RepositoryComplete /\ asked' = NotAsked /\ UNCHANGED RefuseOthers
    \/ FinishRun /\ asked' = NotAsked /\ UNCHANGED RefuseOthers

SpecRefuse == RefuseInit /\ [][RefuseNext]_vars

\* ---------------------------------------------------------------- properties
\* Position of a step in the pipeline of the variant.
Pos(step) == CHOOSE i \in 1..Len(Pipeline(variant)) : Pipeline(variant)[i] = step

\* The process has made every runStep call of the current repository.
PipelineDone == pc = "step" /\ idx = Len(Pipeline(variant)) + 1

\* The previous run aborted because the body of a step raised an error, and
\* this run is processing the repository it failed in.
ResumingFailed == prev.kind = "error" /\ prev.at = "body" /\ pc # "idle" /\ cur = prev.repo

\* The bodies invoked for the current repository follow pipeline order.
InvokedInOrder == \A i \in 1..(Len(invoked) - 1) : Pos(invoked[i]) < Pos(invoked[i + 1])

\* C1: when a run aborted because the body of step S raised an error, the next
\* run of that repository invokes no body of a step before S, invokes the body
\* of S again, and then the later steps in pipeline order.
C1_ResumesAtFailedStep ==
    ResumingFailed =>
        /\ invoked # <<>> => invoked[1] = prev.step /\ InvokedInOrder
        /\ PipelineDone => invoked # <<>>

\* C2: when the process stopped right after the body of `tag` returned (pointer
\* cleared) and before `push` began, the next run of that repository invokes
\* `push` and the later steps only: not `update`/`install`, `build`, `commit`
\* or `tag` again.
C2_ResumesAtPush ==
    (/\ prev.kind = "kill" /\ prev.at = "step" /\ prev.step = "push" /\ prev.returned = "tag"
     /\ pc # "idle" /\ cur = prev.repo)
    => /\ invoked # <<>> => invoked[1] = "push" /\ InvokedInOrder
       /\ PipelineDone => invoked # <<>>

\* The CI waits, which are behind an `if` of their own.
CIWaits == {"workflow (push)", "workflow (release)"}

\* C3: running step S invokes its body if and only if the pointer is absent or
\* equals S; when the pointer is present and names another step, the body is
\* not invoked and the pointer is left unchanged.  (A CI wait that the `if`
\* around it leaves out is not run at all.)
C3_GuardDecidesBody ==
    [][(pc = "step" /\ idx \in 1..Len(Pipeline(variant)) /\ pc' # "idle") =>
         LET s == Pipeline(variant)[idx]
             pointer == configuration[cur].step
             may == pointer = Undefined \/ pointer = s
         IN /\ pc' = "body" => may /\ configuration'[cur].step = s
            /\ may /\ s \notin CIWaits => pc' = "body"
            /\ ~may => pc' = "step" /\ idx' = idx + 1 /\ configuration' = configuration
                       /\ saved' = saved]_vars

\* A resumed run has passed over the steps before the pointer and is in the
\* body of the step the pointer named.
C3_Witness ==
    /\ pc = "body"
    /\ idx > 1
    /\ saved0[cur] = Pipeline(variant)[idx]
    /\ invoked = <<Pipeline(variant)[idx]>>

\* C4: once the body of step S has ended: if it returned, the pointer is
\* absent; if it raised an error, the pointer equals S in memory and in the
\* persisted configuration, and the error ends the run.
C4_PointerAfterBody ==
    [][pc = "body" =>
         LET s == Pipeline(variant)[idx]
         IN /\ pc' = "step" => configuration'[cur].step = Undefined
            /\ last'.kind = "error" =>
                  /\ configuration'[cur].step = s
                  /\ saved'[cur].step = s
                  /\ pc' = "idle"
                  /\ last' = [kind |-> "error", repo |-> cur, step |-> s, at |-> "body",
                              returned |-> Undefined]]_vars

\* A run has ended with an error raised by the body of a step and the
\* persisted pointer names that step.
C4_Witness ==
    /\ pc = "idle"
    /\ last.kind = "error"
    /\ last.at = "body"
    /\ saved[last.repo].step = last.step

\* C5: between the return of a step body and the start of the next one the
\* persisted pointer equals the in-memory pointer.
C5_PersistedAtBoundaries ==
    pc = "step" /\ invoked # <<>> => saved[cur].step = configuration[cur].step

\* C6: while the body of step S executes, the persisted configuration records
\* S as the pointer of the repository.
C6_PersistedBeforeBody ==
    pc = "body" => saved[cur].step = Pipeline(variant)[idx]

\* C7: an error raised while repository R is processed stops the run: the
\* process ends at R and no later repository is processed.
C7_ErrorStopsRun ==
    last.kind = "error" => pc = "idle" /\ cur = last.repo

\* A run has ended with an error in a repository that is not the last one.
C7_Witness ==
    /\ last.kind = "error"
    /\ last.repo < NumRepos
    /\ pc = "idle"

\* C8: in a re-run after an aborted run, a repository whose persisted pointer
\* is `complete` has no step body invoked and keeps its version and
\* last-published fields, and the repository that failed resumes at its failed
\* step.
C8_RerunAfterAbort ==
    [][(pc # "idle" /\ prev.kind = "error") =>
         /\ \A r \in Repos : saved0[r] = "complete" /\ pc # "finish" =>
               /\ ~(pc' = "body" /\ cur' = r)
               /\ saved'[r].lastPublished = saved[r].lastPublished
               /\ saved'[r].lastVersion = saved[r].lastVersion
         /\ ResumingFailed /\ pc' = "body" /\ invoked = <<>> =>
               Pipeline(variant)[idx'] = prev.step
         /\ ResumingFailed /\ PipelineDone /\ pc' # "idle" => invoked # <<>>]_vars

\* C9: when a run processes every repository without error, every pointer is
\* absent in the persisted configuration at its end; when a run aborts with an
\* error, a repository marked `complete` stays `complete` in the persisted
\* configuration.
C9_ResetOnlyAtSuccessfulEnd ==
    /\ [](pc = "idle" /\ last.kind = "done" => \A r \in Repos : saved[r].step = Undefined)
    /\ [][(pc # "idle" /\ last'.kind = "error") =>
            \A r \in Repos : (saved0[r] = "complete" \/ saved[r].step = "complete")
                                => saved'[r].step = "complete"]_vars

\* C9 as the code has it: the pointers are reset and persisted before the
\* final commit of the configuration, which may still fail; and publish-beta
\* scraps the pointer, `complete` included, of a repository whose identifier is
\* not `beta`.  An error raised while a repository is processed resets
\* nothing else.
C9_ResetAtEndOfProcessing ==
    /\ [](pc = "idle" /\ last.kind = "done" => \A r \in Repos : saved[r].step = Undefined)
    /\ [][(pc # "idle" /\ last'.kind = "error" /\ last'.at # "finish") =>
            \A r \in Repos : (saved0[r] = "complete" \/ saved[r].step = "complete")
                                => \/ saved'[r].step = "complete"
                                   \/ variant = "beta" /\ manifest'[r].pre # "beta"]_vars

\* A run has ended normally after a repository was published in it.
C9_Witness ==
    /\ pc = "idle"
    /\ last.kind = "done"
    /\ \E r \in Repos : saved[r].lastPublished = clock /\ clock > 0

\* The pointers of a configuration are absent or step names of the variant.
PointersInDomain(conf) == \A r \in Repos : conf[r].step \in StepNames(variant) \cup {Undefined}

\* The pointer of repository r, present in `before`, is absent in `after`.
Cleared(before, after, r) == before[r].step # Undefined /\ after[r].step = Undefined

\* The body of the step the pointer of r names returns.
StepCompletes(conf, r) ==
    pc = "body" /\ pc' = "step" /\ cur = r /\ conf[r].step = Pipeline(variant)[idx]

\* C10: every pointer is absent or one of the step names of the channel, and
\* a present pointer becomes absent exactly when the step it names completes.
C10_ClearedOnlyByCompletion ==
    /\ [](PointersInDomain(configuration) /\ PointersInDomain(saved))
    /\ [][\A r \in Repos :
            /\ Cleared(saved, saved', r) => StepCompletes(saved, r)
            /\ pc # "idle" /\ pc' # "idle" /\ Cleared(configuration, configuration', r)
                  => StepCompletes(configuration, r)
            /\ StepCompletes(configuration, r) => configuration'[r].step = Undefined]_vars

\* C10 as the code has it: a pointer is also cleared by the reset at the end
\* of a run over every repository, and in publish-beta by the scrapping of the
\* pointer of a repository whose identifier is not `beta`.
C10_ClearedByCompletionResetOrScrap ==
    /\ [](PointersInDomain(configuration) /\ PointersInDomain(saved))
    /\ [][\A r \in Repos :
            LET reset == pc = "finish"
                scrap == variant = "beta" /\ pc = "repo" /\ cur = r /\ manifest'[r].pre # "beta"
            IN /\ Cleared(saved, saved', r) => StepCompletes(saved, r) \/ reset \/ scrap
               /\ pc # "idle" /\ pc' # "idle" /\ Cleared(configuration, configuration', r)
                     => StepCompletes(configuration, r) \/ scrap
               /\ StepCompletes(configuration, r) => configuration'[r].step = Undefined]_vars

\* A resumed run has completed the step the persisted pointer named, and the
\* persisted pointer is absent.
C10_Witness ==
    /\ pc = "step"
    /\ invoked # <<>>
    /\ saved0[cur] = invoked[1]
    /\ saved[cur].step = Undefined

\* The body of the CI wait for the push workflow raises an error in this step.
PushWaitFails ==
    /\ pc = "body"
    /\ StepAt = "workflow (push)"
    /\ last'.kind = "error"

\* C12: when the CI wait for the push workflow fails, the body of `release`
\* has not been and is not invoked for the repository in that run (the run
\* ends there), and the persisted pointer of the repository names
\* `workflow (push)`; a later run that resumes the repository invokes the CI
\* wait before it invokes `release`.
C12_PushWaitFailureHoldsRelease ==
    [][/\ PushWaitFails =>
             /\ \A i \in DOMAIN invoked : invoked[i] # "release"
             /\ pc' = "idle"
             /\ saved'[cur].step = "workflow (push)"
       /\ (ResumingFailed /\ prev.step = "workflow (push)") =>
             \A i \in DOMAIN invoked' :
                 invoked'[i] = "release" => invoked'[1] = "workflow (push)"]_vars

\* A run has ended because the CI wait for the push workflow failed, and the
\* persisted pointer names the wait.
C12_Witness ==
    /\ pc = "idle"
    /\ last.kind = "error"
    /\ last.at = "body"
    /\ last.step = "workflow (push)"
    /\ saved[last.repo].step = "workflow (push)"

\* ------------------------------------------------- properties of the CI wait
\* A step of SpecCI that is one poll.
PollStep == ciOutcome = Polling /\ tick' # tick

Incomplete(id) == workflowRuns[id] = "in_progress"

\* The first run of a response that is not completed, if any.
FirstIncomplete(resp) ==
    IF \E i \in DOMAIN resp : Incomplete(resp[i])
    THEN resp[CHOOSE i \in DOMAIN resp :
                 Incomplete(resp[i]) /\ \A j \in 1..(i - 1) : ~Incomplete(resp[j])]
    ELSE NoRunID

\* The run a poll tracks: the one tracked before it, else the first
\* incomplete run of its response.
TrackedIn(resp) == IF workflowRunID # NoRunID THEN workflowRunID ELSE FirstIncomplete(resp)

\* C11: the wait fails with the timeout error if and only if none of the
\* first QueryLimit polls returned a run for the commit, whatever its status.
C11_TimeoutIffNoRunSeen ==
    ciVariant = "loop" =>
        /\ ciOutcome = TimeoutError => ~everSeen
        /\ polls >= QueryLimit /\ ~everSeen => ciOutcome = TimeoutError

\* C13: a poll fails with the concurrent-workflow error if and only if it
\* observes a run with an ID different from the tracked one while the tracked
\* run is still incomplete.
C13_ParallelIffOtherWhileIncomplete ==
    [][PollStep =>
         LET resp == response'
             tracked == TrackedIn(resp)
         IN ciOutcome' = ParallelError <=>
               /\ tracked # NoRunID
               /\ Incomplete(tracked)
               /\ \E i \in DOMAIN resp : resp[i] # tracked]_vars

\* C13 as the code has it: the error is raised exactly when the loop comes
\* to a run that is not completed and whose ID differs from the tracked one,
\* whether or not the tracked run is still incomplete; completed runs with
\* another ID are passed over.  (The loop does not come to a run that follows
\* the tracked run completed without success: that error is thrown first.)
C13_ParallelIffOtherIncomplete ==
    [][PollStep =>
         LET resp == response'
             tracked == TrackedIn(resp)
         IN ciOutcome' = ParallelError <=>
               /\ tracked # NoRunID
               /\ \E i \in DOMAIN resp :
                     /\ resp[i] # tracked
                     /\ Incomplete(resp[i])
                     /\ ~\E j \in 1..(i - 1) :
                           resp[j] = tracked /\ workflowRuns[tracked] \in Conclusions \ {"success"}]_vars

\* The concurrent-workflow error has been raised although the tracked run
\* has completed with success.
C13_Witness ==
    /\ ciOutcome = ParallelError
    /\ workflowRunID # NoRunID
    /\ workflowRuns[workflowRunID] = "success"

\* C14: the wait returns only when the tracked run has been observed
\* completed with conclusion success; when the tracked run is observed
\* completed with another conclusion it fails with the workflow-failure error
\* carrying that conclusion.
C14_SuccessOnlyOnSuccess ==
    [][PollStep =>
         LET resp == response'
             observed == /\ workflowRunID # NoRunID
                         /\ \E i \in DOMAIN resp :
                               /\ resp[i] = workflowRunID
                               /\ \A j \in 1..(i - 1) : ~Incomplete(resp[j])
         IN /\ ciOutcome' = Returned =>
                  /\ workflowRunID # NoRunID
                  /\ \E i \in DOMAIN resp : resp[i] = workflowRunID
                  /\ workflowRuns[workflowRunID] = "success"
            /\ \A c \in Conclusions \ {"success"} :
                  /\ observed /\ workflowRuns[workflowRunID] = c => ciOutcome' = FailureError(c)
                  /\ ciOutcome' = FailureError(c) => observed /\ workflowRuns[workflowRunID] = c
            /\ ciOutcome' # FailureError("success")]_vars

\* The wait has failed because the tracked run was cancelled.
C14_Witness ==
    /\ ciOutcome = FailureError("cancelled")
    /\ workflowRuns[workflowRunID] = "cancelled"

\* C15: when the provider keeps answering and the run for the commit
\* completes, the wait ends: it returns or raises an error.
C15_WaitEnds == <>(ciOutcome # Polling)

\* ------------------------------------------------ properties of anyChanges
\* anyChanges has been called and has returned or thrown.
Checked == chPc \in {"checked", "aborted", "steps"}

\* The events of the log followed by those of the working tree.
FileEvents == gitLog \o gitStatus

\* The changed set described by the events themselves: the path passes the
\* path filter, some event adds it, and no later event deletes it or renames
\* it away.
InChangedSet(f) ==
    /\ Filter(f)
    /\ \E i \in DOMAIN FileEvents :
          /\ \/ FileEvents[i].status = "M" /\ FileEvents[i].file = f
             \/ FileEvents[i].status = "R" /\ FileEvents[i].newFile = f
          /\ \A j \in (i + 1)..Len(FileEvents) :
                ~(FileEvents[j].status \in {"D", "R"} /\ FileEvents[j].file = f)

\* C16: a strict check of a working tree with an uncommitted entry raises
\* the uncommitted-changes error, with or without a reference timestamp
\* (unless the remote-changes test that precedes it has already raised its
\* own error), and no step runs afterwards.
C16_StrictRaisesUncommitted ==
    Checked /\ strict /\ gitStatus # <<>> =>
        /\ chOutcome.kind = "error"
        /\ chOutcome.error \in {"uncommitted", "remote"}
        /\ chPc # "steps"

\* C17: with a reference timestamp and no error, the check returns true
\* if and only if a path of the filtered changed set has a modification time
\* strictly after the timestamp.
C17_TrueIffChangedAfterTimestamp ==
    Checked /\ lastPublished # Absent /\ chOutcome.kind = "returned" =>
        (chOutcome.value <=>
            \E f \in Paths : InChangedSet(f) /\ mtime[f] > lastPublished[1])

\* C18: without a reference timestamp the check returns true at once, for
\* strict and non-strict checks alike: it runs no VCS command and raises no
\* error.
C18_AbsentReturnsTrueAtOnce ==
    Checked /\ lastPublished = Absent =>
        chOutcome = ChangesReturned(TRUE, {})

\* C18 as the code has it: without a reference timestamp the history is
\* never read and the result is never false; a non-strict check returns true
\* at once; a strict check of the function still reads the working tree and
\* raises the uncommitted-changes error if it has an entry; a strict check of
\* the method still asks the remote and raises the remote-changes error if it
\* has outstanding changes, and does not read the working tree.
C18_AbsentSkipsHistoryOnly ==
    Checked /\ lastPublished = Absent =>
        /\ "log" \notin chOutcome.consulted
        /\ chOutcome.kind = "returned" => chOutcome.value
        /\ ~strict => chOutcome = ChangesReturned(TRUE, {})
        /\ strict /\ chVariant = "function" =>
              chOutcome = IF gitStatus # <<>>
                          THEN ChangesError("uncommitted", {"status"})
                          ELSE ChangesReturned(TRUE, {"status"})
        /\ strict /\ chVariant = "method" =>
              chOutcome \in {ChangesError("remote", {"fetch"}), ChangesReturned(TRUE, {"fetch"})}

\* A strict check without a reference timestamp has raised the
\* uncommitted-changes error.
C18_Witness ==
    /\ chPc = "aborted"
    /\ lastPublished = Absent
    /\ strict
    /\ chOutcome.error = "uncommitted"

\* --------------------------------- properties of the organization dependencies
\* The step in which the dependencies of the current package are resolved
\* and its flag is set.
Resolves == depPc = "resolve" /\ depPc' = "publish"

\* The packages a package depends on, directly or through other packages.
RECURSIVE Reach(_, _)
Reach(S, n) ==
    IF n = 0 THEN S ELSE Reach(S \cup UNION {packageDependencies[d] : d \in S}, n - 1)

TransitiveDependencies(p) == Reach(packageDependencies[p], NumPackages)

\* C19: the flag of a package is true if and only if its own timestamp is
\* absent or some package of its resolved dependency set has a timestamp
\* strictly later than its own.
C19_UpdatedIffAbsentOrLater ==
    [][Resolves =>
         LET own == lastChannelPublished[depCur]
             dependencies == allOrganizationDependencies'[depCur][1]
         IN organizationDependenciesUpdated'[depCur][1] <=>
               \/ own = Absent
               \/ \E d \in dependencies : lastChannelPublished[d][1] > own[1]]_vars

\* C19 as the code has it: the flag is true if and only if the resolved
\* dependency set is not empty and the package's own timestamp is absent, or
\* some package of the set has a timestamp strictly later than its own.
C19_UpdatedIffDependencyAndAbsentOrLater ==
    [][Resolves =>
         LET own == lastChannelPublished[depCur]
             dependencies == allOrganizationDependencies'[depCur][1]
         IN organizationDependenciesUpdated'[depCur][1] <=>
               \/ own = Absent /\ dependencies # {}
               \/ own # Absent /\ \E d \in dependencies : lastChannelPublished[d][1] > own[1]]_vars

\* A package without a timestamp and without dependencies has its flag false.
C19_Witness ==
    /\ depPc = "publish"
    /\ lastChannelPublished[depCur] = Absent
    /\ allOrganizationDependencies[depCur] = <<{}>>
    /\ organizationDependenciesUpdated[depCur] = <<FALSE>>

\* C20: when the dependencies of package B are resolved, its flag is true
\* if a package A it depends on, directly or transitively, has been published
\* earlier in the run, or has a timestamp newer than B's.
C20_UpdatedByPublishedDependency ==
    [][Resolves =>
         \A A \in TransitiveDependencies(depCur) :
              \/ A \in publishedNow
              \/ /\ lastChannelPublished[depCur] # Absent
                 /\ lastChannelPublished[A] # Absent
                 /\ lastChannelPublished[A][1] > lastChannelPublished[depCur][1]
              => organizationDependenciesUpdated'[depCur] = <<TRUE>>]_vars

\* The flag of a package is true because a package it depends on only
\* through another package has been published in this run.
C20_Witness ==
    /\ depPc = "publish"
    /\ organizationDependenciesUpdated[depCur] = <<TRUE>>
    /\ lastChannelPublished[depCur] # Absent
    /\ \E A \in publishedNow :
          /\ A \in TransitiveDependencies(depCur) \ packageDependencies[depCur]
          /\ \A d \in allOrganizationDependencies[depCur][1] \ {A} :
                lastChannelPublished[d][1] <= lastChannelPublished[depCur][1]

\* The configuration lists every dependency before its dependents.
DependenciesFirst == \A p \in Packages : \A d \in packageDependencies[p] : d < p

\* C21: when the configuration lists every dependency before its dependents,
\* the dependency set resolved and saved for a package is the transitive
\* closure of the direct dependencies starting from the package.
C21_ResolvedIsTransitiveClosure ==
    DependenciesFirst =>
        \A p \in Packages :
            allOrganizationDependencies[p] # <<>> =>
                allOrganizationDependencies[p][1] = TransitiveDependencies(p)

\* A set has been resolved that holds a package the manifest does not name.
C21_Witness ==
    /\ DependenciesFirst
    /\ \E p \in Packages :
          /\ allOrganizationDependencies[p] # <<>>
          /\ allOrganizationDependencies[p][1] # packageDependencies[p]
          /\ allOrganizationDependencies[p][1] = TransitiveDependencies(p)

\* ------------------------------------------------------------------- C22
\* C22: for every well-formed version major.minor.patch or
\* major.minor.patch-identifier, building the parsed components gives back
\* exactly the version, the pre-release segment absent or present as it was.
C22_BuildOfParseIsTheVersion == vsPc = "built" => builtVersion = versionString

\* ------------------------------------------------------------------- C23
\* The alpha publish of the run has got past its change detection.
AlphaPublished == program = "alpha" /\ verEntry # NoSnapshot /\ verPc \in {"registry", "done", "failed", "killed"}

\* The version in the manifest, identifier and numbers apart.
SemanticVersionOf(version) == Split(version, "-")[1]

\* C23: in an alpha publish that detects changes, an identifier other than
\* alpha at the entry of publish() makes the patch number go up by exactly
\* one, major and minor stay and the identifier becomes alpha; with the
\* identifier already alpha, major.minor.patch is left as it was.  This is
\* stated of the fields of the process and of the manifest on disk once the
\* publication to the registry is over.
C23_AlphaIncrementsPatchOnce ==
    (AlphaPublished /\ verChanged) =>
        LET entered == verEntry.fields
            patch == IF entered.preReleaseIdentifier # Text(Alpha)
                     THEN entered.patchVersion + 1
                     ELSE entered.patchVersion
        IN  /\ fields.majorVersion = entered.majorVersion
            /\ fields.minorVersion = entered.minorVersion
            /\ fields.patchVersion = patch
            /\ verPc \in {"done", "failed"} =>
                   packageJson = WellFormedVersion(entered.majorVersion,
                                                   entered.minorVersion, patch, Alpha)

\* An alpha publish away from beta has gone through, and one that was
\* already alpha has too.
C23_Witness ==
    /\ AlphaPublished /\ verChanged /\ verPc = "done"
    /\ verEntry.fields.preReleaseIdentifier = Text(Beta)
    /\ fields.patchVersion = verEntry.fields.patchVersion + 1

C23_WitnessAlreadyAlpha ==
    /\ AlphaPublished /\ verChanged /\ verPc = "done"
    /\ verEntry.fields.preReleaseIdentifier = Text(Alpha)
    /\ verBefore # <<>>

\* ------------------------------------------------------------------- C24
\* The publication to the registry of the run has ended, by a return or by
\* an error.
RegistryStepEnded == verBefore # <<>> /\ verPc \in {"done", "failed"}

\* The version is major.minor.patch-alpha, without a suffix.
BareAlpha(version) ==
    /\ Len(Split(version, "-")) = 2
    /\ Split(version, "-")[2] = Alpha

\* The version carries alpha.<digits> as its identifier.
TimestampSuffixed(version) ==
    /\ Len(Split(version, "-")) = 2
    /\ LET identifier == Split(version, "-")[2]
       IN  /\ Len(identifier) > Len(Alpha) + 1
           /\ SubSeq(identifier, 1, Len(Alpha) + 1) = Alpha \o Dot

\* C24 as stated: once the publication to the registry has ended, with or
\* without an error, the manifest on disk again carries the bare
\* major.minor.patch-alpha version it had before the step.
C24_BareAlphaRestored ==
    RegistryStepEnded => packageJson = verBefore[1] /\ BareAlpha(packageJson)

\* C24 as amended: the timestamp-suffixed version is in the manifest during
\* the publication to the registry; once the publication has ended, with or
\* without an error, the manifest on disk again carries the version it had
\* before the step and the backup is gone.  In the alpha publish of the
\* Publish class that version is the bare major.minor.patch-alpha; in
\* publish-internal.ts it is whatever version the manifest had.
C24_VersionBeforeRestored ==
    /\ verPc = "registry" => TimestampSuffixed(packageJson) /\ backupPackageJson = verBefore
    /\ RegistryStepEnded =>
           /\ packageJson = verBefore[1]
           /\ backupPackageJson = <<>>
           /\ program = "alpha" => BareAlpha(packageJson)

\* The publication of an alpha publish ended with an error and that of
\* publish-internal.ts with a return.
C24_Witness ==
    /\ RegistryStepEnded
    /\ program = "alpha"
    /\ verPc = "failed"
    /\ packageJson = verBefore[1]

C24_WitnessInternal ==
    /\ RegistryStepEnded
    /\ program = "internal"
    /\ verPc = "done"
    /\ ~BareAlpha(packageJson)

\* ------------------------------------------------------------------- C25
\* PublishBeta.publish of the run has decided whether to publish.
BetaDecided == program = "beta" /\ verEntry # NoSnapshot /\ verPc \in {"steps", "done", "failed"}

\* The run publishes: its steps are about to run or have run.
BetaPublishing == program = "beta" /\ (verPc = "steps" \/ verStepRan)

\* C25: a beta publish entered with the alpha identifier, and going on to
\* publish, keeps major.minor.patch and replaces only the identifier, with
\* beta; a run that resumes a failed beta publish (pointer present and
\* identifier beta at the entry of publish()) leaves the version as it was,
\* in the fields and in the manifest, up to its end.
C25_BetaKeepsNumbers ==
    BetaDecided =>
        LET entered == verEntry.fields
        IN  /\ (entered.preReleaseIdentifier = Text(Alpha) /\ verError # "changed") =>
                   /\ fields = [entered EXCEPT !.preReleaseIdentifier = Text(Beta)]
                   /\ SemanticVersionOf(packageJson) = SemanticVersionOf(verEntry.version)
                   /\ packageJson = SemanticVersionOf(verEntry.version) \o Dash \o Beta
            /\ (entered.preReleaseIdentifier = Text(Beta) /\ verEntry.step # Undefined) =>
                   /\ fields = entered
                   /\ packageJson = verEntry.version
            \* The same of the run as a whole, whose steps run only when the
            \* version was not realigned with the branch.
            /\ (BetaPublishing /\ BareAlpha(verStart.version)) =>
                   packageJson = SemanticVersionOf(verStart.version) \o Dash \o Beta
            /\ (BetaPublishing /\ verStart.step # Undefined
                  /\ verStart.version = SemanticVersionOf(verStart.version) \o Dash \o Beta) =>
                   packageJson = verStart.version

\* A beta publish from alpha has run its steps, and a resumed one has too.
C25_Witness ==
    /\ BetaDecided /\ verStepRan /\ verPc = "done"
    /\ verEntry.fields.preReleaseIdentifier = Text(Alpha)
    /\ packageJson # verEntry.version

C25_WitnessResumed ==
    /\ BetaDecided /\ verStepRan
    /\ verEntry.fields.preReleaseIdentifier = Text(Beta)
    /\ verEntry.step # Undefined

\* ------------------------------------------------------------------- C26
\* The channel of the run and the branch of the repository do not match.
BranchMismatch ==
    \/ program = "beta" /\ branch \notin VersionBranches
    \/ program \in {"production", "external"} /\ branch # Main

\* The run has come to its branch test: it has started and its manifest
\* carried a version the program could parse.
BranchTested == verPc \notin {"idle", "start", "read"} /\ verError # "version"

C26_WitnessMain ==
    /\ program \in {"production", "external"} /\ verError = "branch" /\ branch # Main

\* ------------------------------------------------------------------- C27
\* C27: in dry-run mode a complete run changes no durable or remote state:
\* neither the configuration files nor a manifest are written, no mutating
\* command is spawned, no CI poll is made and no release is created.
C27_DryRunHasNoEffect == (drDryRun /\ drPc = "done") => effects = {}

\* ------------------------------------------------------------------- C28
\* Two configurations have the same repository keys in the same order and,
\* for every repository and field, the same value.
SameConfiguration(c, d) ==
    /\ Len(c.repositories) = Len(d.repositories)
    /\ \A i \in 1..Len(c.repositories) :
           /\ c.repositories[i][1] = d.repositories[i][1]
           /\ \A field \in ObjectKeys(c.repositories[i][2]) \cup ObjectKeys(d.repositories[i][2]) :
                  Property(c.repositories[i][2], field) = Property(d.repositories[i][2], field)
    /\ \A field \in ObjectKeys(c.top) \cup ObjectKeys(d.top) :
           Property(c.top, field) = Property(d.top, field)

\* C28: saving loses nothing: the configuration merged from the two stores
\* as they were saved is the configuration that was saved, with the same
\* repository keys in the same order and the same field values.
C28_SaveThenLoadIsIdentity == cfgPc = "reloaded" => SameConfiguration(cfg, cfgSaved)

\* ------------------------------------------------------------------- C29
\* C29: loading fails when a repository key is in the local store and not
\* in the shared store: no configuration is merged from such stores.
C29_LocalOnlyKeyFailsLoad ==
    cfgPc = "loaded" =>
        RepositoryKeys(localStore.repositories) \subseteq RepositoryKeys(sharedStore.repositories)

\* ------------------------------------------------------------------- C30
\* The store has a value for the field of the repository.
Sets(store, name, field) ==
    /\ name \in RepositoryKeys(store.repositories)
    /\ field \in ObjectKeys(RepositoryOf(store.repositories, name))

\* C30: in the merged configuration, for every repository key and field,
\* the value is the local store's when the local store sets the field for
\* the repository and the shared store's otherwise.
C30_LocalOverridesShared ==
    cfgPc = "loaded" =>
        \A i \in 1..Len(cfg.repositories) :
            LET name == cfg.repositories[i][1]
            IN  \A field \in {SharedField(cfgVariant), LocalField(cfgVariant)} :
                    Property(cfg.repositories[i][2], field) =
                        IF Sets(localStore, name, field)
                        THEN Property(RepositoryOf(localStore.repositories, name), field)
                        ELSE Property(RepositoryOf(sharedStore.repositories, name), field)

\* A repository was merged in which the local store overrides one field of
\* the shared store and leaves the other to it.
C30_Witness ==
    /\ cfgPc = "loaded"
    /\ \E i \in 1..Len(cfg.repositories) :
           LET name == cfg.repositories[i][1]
           IN  /\ Sets(localStore, name, SharedField(cfgVariant))
               /\ Sets(sharedStore, name, SharedField(cfgVariant))
               /\ Property(cfg.repositories[i][2], SharedField(cfgVariant)) = "false"
               /\ ~Sets(localStore, name, LocalField(cfgVariant))
               /\ Property(cfg.repositories[i][2], LocalField(cfgVariant)) = "shared"

\* ------------------------------------------------------------------- C31
\* The pointer of repository r becomes `complete`, or its last-published
\* timestamp or version changes, in this step.
MarkedPublished(r) ==
    \/ saved'[r].step = "complete" /\ saved[r].step # "complete"
    \/ saved'[r].lastPublished # saved[r].lastPublished
    \/ saved'[r].lastVersion # saved[r].lastVersion

\* C31: the pointer of a repository is set to `complete`, and its
\* last-published timestamp and version are updated, only if the body of
\* `release` has returned for that repository during the current publish cycle,
\* in this run or in an earlier one, whatever pointer was persisted and whether
\* or not the CI waits are scheduled in the resuming run.
C31_CompleteOnlyAfterRelease ==
    [][\A r \in Repos : MarkedPublished(r) => <<r, "release">> \in returnedSteps]_vars

\* ------------------------------------------------------------------- C32
\* The external publish of the current repository has made its last runStep
\* call and records the publication in this step.
ExternalCompletes == variant = "external" /\ PipelineDone /\ pc' # "idle"

\* C32: across any sequence of aborted and resumed runs of one external
\* publish of a repository, the patch number of the manifest ends exactly one
\* higher than the last externally published version: the manifest is written
\* with a new number only from the last published number to the next one, it
\* never runs further ahead, and the publication is recorded with that number.
C32_PatchIncrementedOnce ==
    /\ [](variant = "external" =>
             \A r \in Repos : manifest[r].version \in {saved[r].lastVersion,
                                                        saved[r].lastVersion + 1})
    /\ [][variant = "external" =>
             /\ \A r \in Repos : manifest'[r].version # manifest[r].version =>
                    /\ manifest[r].version = saved[r].lastVersion
                    /\ manifest'[r].version = saved[r].lastVersion + 1
             /\ ExternalCompletes =>
                    /\ manifest[cur].version = saved[cur].lastVersion + 1
                    /\ saved'[cur].lastVersion = manifest[cur].version
                    /\ manifest' = manifest]_vars

\* A run that resumes the repository in which the previous run aborted at a
\* step has made every runStep call; the manifest is one patch number ahead of
\* the last externally published version, as the aborted run left it.
C32_Witness ==
    /\ variant = "external"
    /\ prev.kind \in {"error", "kill"}
    /\ prev.at = "body"
    /\ cur = prev.repo
    /\ PipelineDone
    /\ saved0[cur] \notin {Undefined, "complete"}
    /\ packageVersion = manifest[cur].version
    /\ manifest[cur].version = saved[cur].lastVersion + 1

\* ------------------------------------------------------------------- C33
\* The persisted pointer of repository r names a step still in progress.
InProgress(r) == saved[r].step \notin {Undefined, "complete"}

\* The invariant of C33 for a configuration.
OneInProgress ==
    \A r \in Repos : InProgress(r) =>
        \A q \in Repos : /\ q # r => ~InProgress(q)
                         /\ q > r => saved[q].step = Undefined

\* C33: in the persisted configuration of publish-beta and publish-external,
\* after any sequence of runs, at most one repository has a pointer naming a
\* step still in progress, and every repository after it in configuration
\* order has an absent pointer.
C33_OneInProgress == variant # "release" => OneInProgress

\* What a run has left of the persisted pointers of `disk` when it stands at
\* the current repository: the later repositories have the pointer they had
\* when the run started, the earlier ones an absent or `complete` pointer
\* (publish-beta passes over a repository whose directory is missing).
RunLeaves(disk) ==
    \A q \in Repos :
        /\ q > cur => disk[q].step = saved0[q]
        /\ q < cur => \/ disk[q].step \in {Undefined, "complete"}
                      \/ variant = "beta" /\ disk[q].step = saved0[q]

\* C33 as the code has it: a run sets an in-progress pointer in the repository
\* it stops in only; it leaves the repositories before it with an absent or
\* `complete` pointer and those after it with the pointer they had before the
\* run, which is absent after a first run and can name a step in progress when
\* an earlier run stopped there.
C33_RunLeavesOneInProgress ==
    /\ [][variant # "release" /\ pc # "idle" => RunLeaves(saved')]_vars
    /\ [](variant # "release" /\ runs <= 1 => OneInProgress)

\* A first run has stopped with an error in the first repository: its pointer
\* names the step and the pointer of the next repository is absent.
C33_Witness ==
    /\ variant # "release"
    /\ pc = "idle"
    /\ last.kind = "error"
    /\ last.at = "body"
    /\ last.repo = 1
    /\ InProgress(1)
    /\ saved[2].step = Undefined

\* A later run has stopped in a repository ahead of the one an earlier run
\* stopped in: two pointers name a step in progress.
C33_WitnessTwoInProgress ==
    /\ variant # "release"
    /\ pc = "idle"
    /\ InProgress(1)
    /\ InProgress(2)

\* ------------------------------------------------------------------- C34
\* The run ends in this step with an error raised while the current repository
\* is processed.
AbortsInRepository ==
    pc # "idle" /\ last'.kind = "error" /\ last'.at \in {"preamble", "publish", "body"}

\* The body of the last step of the pipeline of r has returned in the cycle
\* (the last step of publish-beta is `release` when no release workflow is
\* scheduled).
LastStepReturned(r) ==
    IF variant = "beta"
    THEN <<r, "workflow (release)">> \in returnedSteps \/ <<r, "release">> \in returnedSteps
    ELSE <<r, "restore alpha">> \in returnedSteps

\* The first half of C34: an abort leaves the last-published fields of the
\* repository as they were before the run.
AbortKeepsPublished ==
    [][AbortsInRepository => Published(saved')[cur] = startPublished[cur]]_vars

\* C34: if the publish of a repository aborts with an error at any step, its
\* last-published timestamp and version are unchanged from their values before
\* the run; they change only after the last step of its pipeline has
\* completed.
C34_PublishedOnlyAfterLastStep ==
    [][/\ AbortsInRepository => Published(saved')[cur] = startPublished[cur]
       /\ \A r \in Repos : Published(saved')[r] # Published(saved)[r] =>
              cur = r /\ PipelineDone /\ LastStepReturned(r)]_vars

\* ------------------------------------------------------------------- C35
\* The file events of the detection window in the order they happened: the
\* commits from the oldest to the newest, then the entries of the working tree.
RECURSIVE Reversed(_)
Reversed(entries) ==
    IF entries = <<>> THEN <<>> ELSE Append(Reversed(Tail(entries)), Head(entries))

Chronology == Reversed(gitLog) \o gitStatus

\* The changed set the check ends with.
FinalChangedSet == ProcessChangedFiles(ProcessChangedFiles({}, gitLog), gitStatus)

\* A file was renamed to f and f was deleted afterwards, and nothing has
\* brought f back since.
RenamedThenDeleted(f) ==
    \E i, j \in DOMAIN Chronology :
        /\ i < j
        /\ Chronology[i].status = "R" /\ Chronology[i].newFile = f
        /\ Chronology[j].status = "D" /\ Chronology[j].file = f
        /\ \A k \in (j + 1)..Len(Chronology) :
              ~(\/ Chronology[k].status = "M" /\ Chronology[k].file = f
                \/ Chronology[k].status = "R" /\ Chronology[k].newFile = f)

\* C35: a file renamed from a.ts to b.ts and then deleted within the same
\* detection window is not in the changed set when the change check finishes.
C35_RenamedThenDeletedIsGone ==
    (chPc = "checked" /\ lastPublished # Absent) =>
        \A f \in Paths : RenamedThenDeleted(f) => f \notin FinalChangedSet

\* ------------------------------------------------------------------- C36
\* The changed set after the first k events, in the order they are processed.
ChangedSetAfter(k) == ProcessChangedFiles({}, SubSeq(FileEvents, 1, k))

\* The log and the working tree have been processed by a check that returned.
EventsProcessed == chPc = "checked" /\ lastPublished # Absent

\* The effect of an event as C36 has it.
ClaimedEffect(set, entry) ==
    CASE entry.status = "D" -> set \ {entry.file}
      [] entry.status = "R" -> (set \ {entry.file}) \cup {entry.newFile}
      [] OTHER -> set \cup {entry.file}

\* The effect of an event with the path filter applied to what is inserted.
FilteredEffect(set, entry) ==
    CASE entry.status = "D" -> set \ {entry.file}
      [] entry.status = "R" ->
            (set \ {entry.file}) \cup (IF Filter(entry.newFile) THEN {entry.newFile} ELSE {})
      [] OTHER -> set \cup (IF Filter(entry.file) THEN {entry.file} ELSE {})

C36_WitnessFiltered ==
    /\ EventsProcessed
    /\ Len(FileEvents) = 2
    /\ FileEvents[2].status = "R"
    /\ FileEvents[2].file \in ChangedSetAfter(1)
    /\ ~Filter(FileEvents[2].newFile)
    /\ ChangedSetAfter(2) = {}

\* ------------------------------------------------------------------- C37
\* The file has a component that starts with a dot.
Hidden(file) == \E i \in DOMAIN file : StartsWithDot(file[i])

\* The file is under the directory.
Under(directory, file) ==
    Len(directory) < Len(file) /\ SubSeq(file, 1, Len(directory)) = directory

\* The file matches the exclusion list exactly or by directory prefix.
OnExclusionList(file) ==
    \E excludePath \in excludePaths : file = excludePath.path \/ Under(excludePath.path, file)

\* The paths C37 keeps out of the changed set.
KeptOut(file) ==
    \/ Hidden(file) /\ ~Under(<<".github">>, file)
    \/ Under(<<"test">>, file)
    \/ OnExclusionList(file)

\* C37: the changed set used for the final decision never contains a hidden
\* path other than one under `.github/`, a path under `test/`, or a path that
\* matches the exclusion list of the repository exactly or by directory
\* prefix; such a path never makes the check return true, whatever its
\* modification time.
C37_FilteredPathsKeptOut ==
    /\ \A file \in flSet : ~KeptOut(file)
    /\ (flPc = "checked" /\ KeptOut(flFile)) => ~flAnyChanges

\* ------------------------------------------------------------------- C38
\* C38: every VCS query made on behalf of repository R during a run (current
\* branch, history, working-tree status, commit identifier) is executed with
\* R's own directory as the working directory, so the branch validated for R
\* is R's branch.
C38_QueriesInOwnDirectory ==
    /\ \A q \in wdQueries : q[3] = q[1]
    /\ wdPc = "validated" => wdBranch = wdBranchOf[wdIdx]

\* ------------------------------------------------------------------- C39
\* The callback of the current repository ended in an error before any step:
\* no step body runs and the pointer of the repository is absent on disk.
Refused ==
    /\ pc = "idle"
    /\ last.kind = "error"
    /\ last.repo = cur
    /\ last.step = Undefined
    /\ saved[cur].step = Undefined

\* A beta publish enters from an `alpha` identifier and the repository has
\* changed since its last alpha publication.
BetaFromAlphaChanged ==
    asked.set /\ variant = "beta" /\ asked.identifier = "alpha" /\ asked.changes

\* An external publish of a repository without pointer that has internal
\* changes not yet published.
ExternalWithInternalChanges ==
    asked.set /\ variant = "external" /\ asked.pointer = Undefined /\ asked.changes

\* C39 as stated: a beta publish entering from an `alpha` identifier raises an
\* error if the repository has any change since its last alpha publication,
\* and an external publish raises an error if the repository has internal
\* changes not yet published; in both cases no step body runs and the pointer
\* stays absent.
C39_RefusedWhenLowerUnpublished ==
    (BetaFromAlphaChanged \/ ExternalWithInternalChanges) => Refused

\* C39 (amended): as above, the external publish being one that is to publish
\* the repository: it has changes since its last external publication, or is
\* set to publish always.
C39_RefusedWhenAboutToPublish ==
    (BetaFromAlphaChanged \/ (ExternalWithInternalChanges /\ asked.publish)) => Refused

C39_Witness == ExternalWithInternalChanges /\ asked.publish /\ Refused

C39_WitnessBeta == BetaFromAlphaChanged /\ Refused

\* The external publish that is not refused: nothing is to be published.
C39_WitnessNothingToPublish ==
    ExternalWithInternalChanges /\ ~asked.publish /\ pc # "idle"

\* ------------------------------------------------------------------- C40
\* C40: within one CI wait, the tracked run ID and the poll count are carried
\* over from one poll to the next: the tracked ID is the first run observed
\* for the commit and never changes once set, and the poll count increases by
\* exactly one per poll until the wait ends.
C40_CarriedAcrossPolls ==
    [][PollStep =>
          /\ workflowRunID # NoRunID => workflowRunID' = workflowRunID
          /\ (workflowRunID = NoRunID /\ \E i \in DOMAIN response' :
                                             workflowRuns[response'[i]] = "in_progress")
                => \E i \in DOMAIN response' :
                      /\ workflowRunID' = response'[i]
                      /\ \A j \in 1..(i - 1) : workflowRuns[response'[j]] # "in_progress"
          /\ queryCount' = Increment(queryCount)]_vars

====
